---------------------------- MODULE Spec2Model ----------------------------
(***************************************************************************)
(* A model of the ZetaChain MCP server: the protocol dispatcher            *)
(* (core/base.py), the tool registry and handlers (server.py), the stdio   *)
(* transport (core/transport.py) and the chain connection                  *)
(* (utils/connection.py).                                                  *)
(*                                                                         *)
(* Python values that cross the protocol boundary are JSON values.  They   *)
(* are modelled as tagged records so that None, strings, numbers, lists    *)
(* and dicts stay distinct; a dict is its sequence of items in insertion   *)
(* order, which is the order json.dumps writes.                            *)
(***************************************************************************)
EXTENDS Integers, Sequences, FiniteSets, TLC

VARIABLES
    server,     \* the ZetaChainMCPServer object: its fields and its collaborators' fields
    last,       \* the most recent call made on the server, with what it returned
    io          \* the adapter in front of the server: the position of run() and its
                \* streams, or the state of the HTTP application

vars == <<server, last, io>>

-----------------------------------------------------------------------------
(* JSON values *)

JNull == [t |-> "null"]
JBool(b) == [t |-> "bool", v |-> b]
JInt(n) == [t |-> "int", v |-> n]
JStr(s) == [t |-> "str", v |-> s]
JList(items) == [t |-> "list", v |-> items]
JDict(items) == [t |-> "dict", v |-> items]
KV(k, val) == [k |-> k, v |-> val]

\* a float, kept as the fraction n/d in lowest terms with d > 0: the model computes
\* with the exact value and leaves the rounding of the binary format aside
JFloat(q) == [t |-> "float", v |-> q]

EmptyDict == JDict(<<>>)

IsDict(x) == x.t = "dict"
IsStr(x) == x.t = "str"

\* key in d
HasKey(d, key) == \E i \in DOMAIN d.v : d.v[i].k = key

\* d[key]
Item(d, key) == d.v[CHOOSE i \in DOMAIN d.v : d.v[i].k = key].v

\* d.get(key, default)
DictGet(d, key, default) == IF HasKey(d, key) THEN Item(d, key) ELSE default

\* d[key] = val: the value of an existing key is replaced in place, a new key is
\* appended
DictSet(d, key, val) ==
    IF HasKey(d, key)
    THEN JDict([i \in DOMAIN d.v |-> IF d.v[i].k = key THEN KV(key, val) ELSE d.v[i]])
    ELSE JDict(Append(d.v, KV(key, val)))

\* the keys of d, in insertion order
Keys(d) == [i \in DOMAIN d.v |-> d.v[i].k]

Range(seq) == {seq[i] : i \in DOMAIN seq}

\* type(x).__name__
TypeName(x) ==
    CASE x.t = "null" -> "NoneType"
      [] x.t = "bool" -> "bool"
      [] x.t = "int" -> "int"
      [] x.t = "float" -> "float"
      [] x.t = "str" -> "str"
      [] x.t = "list" -> "list"
      [] x.t = "dict" -> "dict"

\* str(x) as an f-string formats it, for the values whose text the dispatcher
\* builds messages from: a str is itself, None is "None", an int its digits.
PyStr(x) ==
    CASE x.t = "str" -> x.v
      [] x.t = "null" -> "None"
      [] x.t = "int" -> ToString(x.v)
      [] x.t = "bool" -> IF x.v THEN "True" ELSE "False"
      [] x.t = "list" -> IF x.v = <<>> THEN "[]" ELSE "[...]"
      [] x.t = "dict" -> IF x.v = <<>> THEN "{}" ELSE "{...}"

-----------------------------------------------------------------------------
(* Arithmetic on int and float values *)

Abs(n) == IF n < 0 THEN -n ELSE n

RECURSIVE GCD(_, _)
GCD(a, b) == IF b = 0 THEN a ELSE GCD(b, a % b)

\* the fraction n/d in lowest terms, d # 0
Frac(n, d) ==
    LET g == GCD(Abs(n), Abs(d))
    IN  IF d < 0 THEN <<-(n \div g), -(d \div g)>> ELSE <<n \div g, d \div g>>

\* the value of an int or a float as a fraction
Num(x) == IF x.t = "int" THEN <<x.v, 1>> ELSE x.v

FAdd(p, q) == Frac(p[1] * q[2] + q[1] * p[2], p[2] * q[2])
FSub(p, q) == Frac(p[1] * q[2] - q[1] * p[2], p[2] * q[2])
FMul(p, q) == Frac(p[1] * q[1], p[2] * q[2])
\* p / q for q # 0; the factors are reduced first to keep the products small
FDiv(p, q) ==
    LET a == Frac(p[1], q[1])
        b == Frac(q[2], p[2])
    IN  Frac(a[1] * b[1], a[2] * b[2])

TwoDigits(n) == IF n < 10 THEN "0" \o ToString(n) ELSE ToString(n)

\* f"{x:.2f}" for a float x >= 0: the hundredths rounded to the nearest, a tie to
\* the even one
Format2f(q) ==
    LET whole == q[1] \div q[2]
        rest == (q[1] % q[2]) * 100
        down == rest \div q[2]
        twice == 2 * (rest % q[2])
        cents == IF twice > q[2] \/ (twice = q[2] /\ down % 2 = 1) THEN down + 1 ELSE down
    IN  IF cents = 100 THEN ToString(whole + 1) \o ".00"
        ELSE ToString(whole) \o "." \o TwoDigits(cents)

\* indent * level spaces, for indent = 2
Indent(level) == IF level = 0 THEN "" ELSE IF level = 1 THEN "  "
                 ELSE IF level = 2 THEN "    " ELSE IF level = 3 THEN "      "
                 ELSE IF level = 4 THEN "        " ELSE "          "

RECURSIVE JoinLines(_, _)
\* the texts of parts, separated by "," and a line break and each indented to level
JoinLines(parts, level) ==
    IF parts = <<>> THEN ""
    ELSE Indent(level) \o Head(parts)
         \o (IF Len(parts) = 1 THEN "" ELSE ",\n" \o JoinLines(Tail(parts), level))

RECURSIVE json_dumps_at(_, _)
\* json.dumps(x, indent=2), the text of x nested at the given level.  The strings
\* of the model hold no character that JSON escapes.
json_dumps_at(x, level) ==
    CASE x.t = "null" -> "null"
      [] x.t = "bool" -> IF x.v THEN "true" ELSE "false"
      [] x.t = "int" -> ToString(x.v)
      [] x.t = "str" -> "\"" \o x.v \o "\""
      [] x.t = "list" ->
           IF x.v = <<>> THEN "[]"
           ELSE "[\n"
                \o JoinLines([i \in DOMAIN x.v |-> json_dumps_at(x.v[i], level + 1)], level + 1)
                \o "\n" \o Indent(level) \o "]"
      [] x.t = "dict" ->
           IF x.v = <<>> THEN "{}"
           ELSE "{\n"
                \o JoinLines([i \in DOMAIN x.v |->
                                "\"" \o x.v[i].k \o "\": " \o json_dumps_at(x.v[i].v, level + 1)],
                             level + 1)
                \o "\n" \o Indent(level) \o "}"

json_dumps(x) == json_dumps_at(x, 0)

-----------------------------------------------------------------------------
(* Results of Python calls: a method returns a value or raises an exception; *)
(* either way it leaves the object in a state.                               *)

Return(self, value) == [self |-> self, raised |-> FALSE, value |-> value]
Raise(self, type, msg) == [self |-> self, raised |-> TRUE, value |-> [type |-> type, msg |-> msg]]


-----------------------------------------------------------------------------
(* ZetaChainConfig: the configuration of the modelled server.  Its         *)
(* supported_chains holds the first two chains of the default table.       *)

supported_chains == <<"zetachain", "ethereum">>

SupportedChains == Range(supported_chains)

gateway_address == "0x6c533f7fe93fae114d0954697069df33c9b74fd7"

ChainTable(chain) ==
    CASE chain = "zetachain" ->
           [name |-> "ZetaChain Athens Testnet", chain_id |-> 7001,
            rpc_url |-> "https://zetachain-athens-evm.blockpi.network/v1/rpc/public",
            explorer |-> "https://explorer.zetachain.com", native_currency |-> "ZETA"]
      [] chain = "ethereum" ->
           [name |-> "Ethereum Sepolia", chain_id |-> 11155111,
            rpc_url |-> "https://eth-sepolia.public.blastapi.io",
            explorer |-> "https://sepolia.etherscan.io", native_currency |-> "ETH"]

\* str.lower() on the strings of the model: the ones not listed are lower-case already
Lower(s) ==
    CASE s = "Ethereum" -> "ethereum"
      [] s = "ZetaChain" -> "zetachain"
      [] OTHER -> s

\* ZetaChainConfig.get_chain_config: the chain's entry, or None.  chain_name.lower()
\* raises AttributeError when chain_name is no str; the callers below test that first.
HasChainConfig(chain_name) == Lower(chain_name) \in SupportedChains
get_chain_config(chain_name) == ChainTable(Lower(chain_name))

NoLowerMsg(x) == "'" \o TypeName(x) \o "' object has no attribute 'lower'"

-----------------------------------------------------------------------------
(* The tool registry: the descriptors _load_tools stores, and the tool_*   *)
(* methods getattr resolves.  A descriptor keeps its name and the property *)
(* names and required list of its inputSchema; the description texts and   *)
(* the per-property schemas are left out.                                  *)

PropertySchemas(props) == JDict([i \in DOMAIN props |-> KV(props[i], EmptyDict)])
Strs(names) == JList([i \in DOMAIN names |-> JStr(names[i])])

Descriptor(name, props) ==
    JDict(<<KV("name", JStr(name)),
            KV("inputSchema", JDict(<<KV("type", JStr("object")),
                                      KV("properties", PropertySchemas(props))>>))>>)

DescriptorReq(name, props, required) ==
    JDict(<<KV("name", JStr(name)),
            KV("inputSchema", JDict(<<KV("type", JStr("object")),
                                      KV("properties", PropertySchemas(props)),
                                      KV("required", Strs(required))>>))>>)

ToolDescriptors ==
<<
    DescriptorReq("create_wallet", <<"name", "mnemonic">>, <<"name">>),
    DescriptorReq("import_wallet", <<"name", "private_key">>, <<"name", "private_key">>),
    Descriptor("list_wallets", <<>>),
    DescriptorReq("get_balance", <<"wallet_name", "chain">>, <<"wallet_name">>),
    DescriptorReq("get_wallet_info", <<"wallet_name">>, <<"wallet_name">>),
    Descriptor("get_supported_chains", <<>>),
    DescriptorReq("get_bridge_info", <<"from_chain", "to_chain">>, <<"from_chain", "to_chain">>),
    DescriptorReq("estimate_cross_chain_fee", <<"from_chain", "to_chain", "amount">>, <<"from_chain", "to_chain", "amount">>),
    DescriptorReq("get_cross_chain_status", <<"tx_hash">>, <<"tx_hash">>),
    DescriptorReq("get_cross_chain_history", <<"address", "limit">>, <<"address">>),
    DescriptorReq("send_omnichain_message", <<"from_chain", "to_chain", "message", "sender_address", "recipient_address">>, <<"from_chain", "to_chain", "message", "sender_address", "recipient_address">>),
    DescriptorReq("get_message_status", <<"message_id">>, <<"message_id">>),
    DescriptorReq("get_messages", <<"address", "limit">>, <<"address">>),
    Descriptor("get_omnichain_stats", <<>>),
    Descriptor("get_chain_status", <<>>),
    Descriptor("get_proposals", <<"status">>),
    DescriptorReq("get_proposal", <<"proposal_id">>, <<"proposal_id">>),
    DescriptorReq("vote_on_proposal", <<"proposal_id", "voter_address", "vote", "voting_power">>, <<"proposal_id", "voter_address", "vote", "voting_power">>),
    DescriptorReq("get_voting_power", <<"address">>, <<"address">>),
    Descriptor("get_governance_stats", <<>>),
    Descriptor("get_pools", <<>>),
    DescriptorReq("get_pool_info", <<"pool_id">>, <<"pool_id">>),
    DescriptorReq("add_liquidity", <<"pool_id", "token_a_amount", "token_b_amount", "user_address">>, <<"pool_id", "token_a_amount", "token_b_amount", "user_address">>),
    DescriptorReq("remove_liquidity", <<"pool_id", "lp_tokens", "user_address">>, <<"pool_id", "lp_tokens", "user_address">>),
    DescriptorReq("swap_tokens", <<"pool_id", "token_in", "amount_in", "user_address">>, <<"pool_id", "token_in", "amount_in", "user_address">>),
    DescriptorReq("get_user_positions", <<"user_address">>, <<"user_address">>),
    Descriptor("get_defi_stats", <<>>),
    Descriptor("get_network_info", <<"chain">>)
>>

\* the parameters of tool_<name>, after self
Signature(name) ==
    CASE name = "create_wallet" -> [required |-> <<"name">>, optional |-> <<"mnemonic">>]
      [] name = "import_wallet" -> [required |-> <<"name", "private_key">>, optional |-> <<>>]
      [] name = "list_wallets" -> [required |-> <<>>, optional |-> <<>>]
      [] name = "get_balance" -> [required |-> <<"wallet_name">>, optional |-> <<"chain">>]
      [] name = "get_wallet_info" -> [required |-> <<"wallet_name">>, optional |-> <<>>]
      [] name = "get_supported_chains" -> [required |-> <<>>, optional |-> <<>>]
      [] name = "get_bridge_info" -> [required |-> <<"from_chain", "to_chain">>, optional |-> <<>>]
      [] name = "estimate_cross_chain_fee" -> [required |-> <<"from_chain", "to_chain", "amount">>, optional |-> <<>>]
      [] name = "get_cross_chain_status" -> [required |-> <<"tx_hash">>, optional |-> <<>>]
      [] name = "get_cross_chain_history" -> [required |-> <<"address">>, optional |-> <<"limit">>]
      [] name = "send_omnichain_message" -> [required |-> <<"from_chain", "to_chain", "message", "sender_address", "recipient_address">>, optional |-> <<>>]
      [] name = "get_message_status" -> [required |-> <<"message_id">>, optional |-> <<>>]
      [] name = "get_messages" -> [required |-> <<"address">>, optional |-> <<"limit">>]
      [] name = "get_omnichain_stats" -> [required |-> <<>>, optional |-> <<>>]
      [] name = "get_chain_status" -> [required |-> <<>>, optional |-> <<>>]
      [] name = "get_proposals" -> [required |-> <<>>, optional |-> <<"status">>]
      [] name = "get_proposal" -> [required |-> <<"proposal_id">>, optional |-> <<>>]
      [] name = "vote_on_proposal" -> [required |-> <<"proposal_id", "voter_address", "vote", "voting_power">>, optional |-> <<>>]
      [] name = "get_voting_power" -> [required |-> <<"address">>, optional |-> <<>>]
      [] name = "get_governance_stats" -> [required |-> <<>>, optional |-> <<>>]
      [] name = "get_pools" -> [required |-> <<>>, optional |-> <<>>]
      [] name = "get_pool_info" -> [required |-> <<"pool_id">>, optional |-> <<>>]
      [] name = "add_liquidity" -> [required |-> <<"pool_id", "token_a_amount", "token_b_amount", "user_address">>, optional |-> <<>>]
      [] name = "remove_liquidity" -> [required |-> <<"pool_id", "lp_tokens", "user_address">>, optional |-> <<>>]
      [] name = "swap_tokens" -> [required |-> <<"pool_id", "token_in", "amount_in", "user_address">>, optional |-> <<>>]
      [] name = "get_user_positions" -> [required |-> <<"user_address">>, optional |-> <<>>]
      [] name = "get_defi_stats" -> [required |-> <<>>, optional |-> <<>>]
      [] name = "get_network_info" -> [required |-> <<>>, optional |-> <<"chain">>]

\* the names for which the class defines a tool_<name> method
HandlerNames ==
    {"create_wallet", "import_wallet", "list_wallets", "get_balance", "get_wallet_info", "get_supported_chains", "get_bridge_info", "estimate_cross_chain_fee",
     "get_cross_chain_status", "get_cross_chain_history", "send_omnichain_message", "get_message_status", "get_messages", "get_omnichain_stats",
     "get_chain_status", "get_proposals", "get_proposal", "vote_on_proposal", "get_voting_power", "get_governance_stats",
     "get_pools", "get_pool_info", "add_liquidity", "remove_liquidity", "swap_tokens", "get_user_positions",
     "get_defi_stats", "get_network_info"}

-----------------------------------------------------------------------------
(* The environment of one call: what the network answers while it runs.    *)
(* connect is the set of chains whose node accepts a connection, chain_id  *)
(* and block_number tell whether the node answers those two queries.       *)

\* the accounts the key generator can come up with: Account.create and
\* Mnemonic.generate draw from the system's randomness
Accounts ==
    {[address |-> "0xf39Fd6e51aad88F6F4ce6aB8827279cffFb92266",
      private_key |-> "0xac0974bec39a17e36ba4a6b4d238ff944bacb478cbed5efcae784d7bf4f2ff80",
      mnemonic |-> "test test test test test test test test test test test junk"],
     [address |-> "0x9858EfFD232B4033E47d90003D41EC34EcaEda94",
      private_key |-> "0x1ab42cc412b618bdea3a599e3c9bae199ebf030895b039e9db1e30dafb12b727",
      mnemonic |-> "abandon abandon abandon abandon abandon abandon abandon abandon abandon abandon abandon about"]}

FirstAccount == CHOOSE a \in Accounts : a.address = "0xf39Fd6e51aad88F6F4ce6aB8827279cffFb92266"

\* account is the account the key generator yields when the call asks it for one
Envs == [connect : SUBSET SupportedChains, chain_id : BOOLEAN, block_number : BOOLEAN,
         account : Accounts]

QuietEnv == [connect |-> {}, chain_id |-> FALSE, block_number |-> FALSE,
             account |-> FirstAccount]

\* the block number a node that answers reports
NodeBlockNumber == JInt(100)

-----------------------------------------------------------------------------
(* StdioTransport and ZetaChainConnection *)

StdioTransport == [closed |-> FALSE]

\* StdioTransport.close as it would be if it flipped the flag
transport_close_toggling(transport) == [transport EXCEPT !.closed = ~@]

\* StdioTransport.close
transport_close(transport) == [transport EXCEPT !.closed = TRUE]

ZetaChainConnection == [initialized |-> FALSE, web3_clients |-> {}]


\* ZetaChainConnection.initialize as it would be without the test of the flag
connection_initialize_unguarded(conn, env) ==
    [initialized |-> TRUE,
     web3_clients |-> conn.web3_clients \cup (SupportedChains \cap env.connect)]

\* ZetaChainConnection.initialize: one connection attempt per configured chain, unless
\* the connection is initialized already
connection_initialize(conn, env) ==
    IF conn.initialized THEN conn
    ELSE [initialized |-> TRUE,
          web3_clients |-> conn.web3_clients \cup (SupportedChains \cap env.connect)]

\* ZetaChainConnection.get_client, for a str chain_name: the connection after the call,
\* and whether it holds a client for the chain
get_client(conn, chain_name, env) ==
    LET c == IF ~conn.initialized THEN connection_initialize(conn, env) ELSE conn
    IN  [conn |-> c, found |-> Lower(chain_name) \in c.web3_clients]

connection_close(conn) == [initialized |-> FALSE, web3_clients |-> {}]

\* ZetaChainConnection.get_network_info
get_network_info(self, chain_name, env) ==
    IF ~IsStr(chain_name)
    THEN \* get_client initializes the connection, then chain_name.lower() raises
         Raise([self EXCEPT !.connection = connection_initialize(@, env)],
               "AttributeError", NoLowerMsg(chain_name))
    ELSE LET got == get_client(self.connection, chain_name.v, env)
             s == [self EXCEPT !.connection = got.conn]
             cfg == get_chain_config(chain_name.v)
         IN  IF ~got.found \/ ~HasChainConfig(chain_name.v)
             THEN Return(s, JDict(<<KV("error",
                                       JStr("Chain " \o chain_name.v \o " not available"))>>))
             ELSE Return(s, JDict(<<
                     KV("chain", chain_name),
                     KV("chainId", IF env.chain_id THEN JInt(cfg.chain_id) ELSE JNull),
                     KV("blockNumber", IF env.block_number THEN NodeBlockNumber ELSE JNull),
                     KV("rpcUrl", JStr(cfg.rpc_url)),
                     KV("explorer", JStr(cfg.explorer)),
                     KV("nativeCurrency", JStr(cfg.native_currency)),
                     KV("name", JStr(cfg.name))>>))

-----------------------------------------------------------------------------
(* CrossChainManager *)

ChainEntry(chain) ==
    LET cfg == ChainTable(chain)
    IN  JDict(<<KV("name", JStr(chain)),
                KV("displayName", JStr(cfg.name)),
                KV("chainId", JInt(cfg.chain_id)),
                KV("nativeCurrency", JStr(cfg.native_currency)),
                KV("explorer", JStr(cfg.explorer))>>)

get_supported_chains(self) ==
    Return(self, JDict(<<
        KV("success", JBool(TRUE)),
        KV("chains", JList([i \in DOMAIN supported_chains |-> ChainEntry(supported_chains[i])])),
        KV("count", JInt(Len(supported_chains)))>>))

BridgeSide(chain_name) ==
    LET cfg == get_chain_config(chain_name.v)
    IN  JDict(<<KV("name", chain_name),
                KV("chainId", JInt(cfg.chain_id)),
                KV("nativeCurrency", JStr(cfg.native_currency))>>)

\* CrossChainManager.get_bridge_info: every exception is caught and returned as an error
get_bridge_info(self, from_chain, to_chain) ==
    IF ~IsStr(from_chain)
    THEN Return(self, JDict(<<KV("error", JStr(NoLowerMsg(from_chain)))>>))
    ELSE IF ~IsStr(to_chain)
    THEN Return(self, JDict(<<KV("error", JStr(NoLowerMsg(to_chain)))>>))
    ELSE IF ~HasChainConfig(from_chain.v) \/ ~HasChainConfig(to_chain.v)
    THEN Return(self, JDict(<<KV("error", JStr("Unsupported chain pair"))>>))
    ELSE Return(self, JDict(<<
            KV("success", JBool(TRUE)),
            KV("bridgeInfo", JDict(<<
                KV("fromChain", BridgeSide(from_chain)),
                KV("toChain", BridgeSide(to_chain)),
                KV("bridgeAddress", JStr(gateway_address)),
                KV("estimatedTime", JStr("5-10 minutes")),
                KV("fees", JDict(<<KV("gas", JStr("0.001 ZETA")),
                                   KV("bridge", JStr("0.0001 ZETA"))>>)),
                KV("supportedTokens", Strs(<<"native", "USDC", "USDT", "WETH">>))>>))>>))

-----------------------------------------------------------------------------
(* Validation and the clock *)

\* the strings of the model that eth_utils.is_address accepts
HexAddresses ==
    {"0x1234567890123456789012345678901234567890",
     "0x2345678901234567890123456789012345678901"}

validate_address(address) == IsStr(address) /\ address.v \in HexAddresses

\* float(s) for the strings of the model that float accepts
FloatTable ==
    [s \in {"20", "60", "800000", "1600000", "0", "-5"} |->
        CASE s = "20" -> <<20, 1>>
          [] s = "60" -> <<60, 1>>
          [] s = "800000" -> <<800000, 1>>
          [] s = "1600000" -> <<1600000, 1>>
          [] s = "0" -> <<0, 1>>
          [] s = "-5" -> <<-5, 1>>]

\* float(x) succeeds, for x a str, an int or a float
CanFloat(x) == x.t \in {"int", "float"} \/ (IsStr(x) /\ x.v \in DOMAIN FloatTable)

\* float(x)
float(x) == IF IsStr(x) THEN FloatTable[x.v] ELSE Num(x)

\* validate_amount: float(amount) > 0, False when float raises ValueError or TypeError
validate_amount(amount) == CanFloat(amount) /\ float(amount)[1] > 0

\* the mnemonics of the model that Mnemonic("english").check accepts
validate_mnemonic(mnemonic) ==
    IsStr(mnemonic) /\ \E a \in Accounts : a.mnemonic = mnemonic.v

\* Account.from_mnemonic
from_mnemonic(mnemonic) == CHOOSE a \in Accounts : a.mnemonic = mnemonic

\* int(time.time()): the clock stands still in the model, the managers are built and
\* called in the same second
time_time == 1700000000

-----------------------------------------------------------------------------
(* WalletManager *)

\* the manager after __init__ with an empty storage directory; wallets_file is the
\* content of wallets.json, None while the file does not exist
WalletManager == [wallets |-> EmptyDict, wallets_file |-> JNull]

\* WalletManager._save_wallets
save_wallets(manager) == [manager EXCEPT !.wallets_file = manager.wallets]

\* WalletManager.create_wallet, for a str name
create_wallet(self, name, mnemonic, env) ==
    LET manager == self.wallet_manager
        given == mnemonic.t = "str" /\ mnemonic.v # ""
        account == IF given THEN from_mnemonic(mnemonic.v) ELSE env.account
        wallet_data == JDict(<<
            KV("name", name),
            KV("address", JStr(account.address)),
            KV("private_key", JStr(account.private_key)),
            KV("mnemonic", JStr(account.mnemonic)),
            KV("created_at", JStr(ToString(time_time))),
            KV("chains", EmptyDict)>>)
    IN  IF HasKey(manager.wallets, name.v)
        THEN Return(self, JDict(<<KV("error", JStr("Wallet '" \o name.v \o "' already exists"))>>))
        ELSE IF given /\ ~validate_mnemonic(mnemonic)
        THEN Return(self, JDict(<<KV("error", JStr("Invalid mnemonic phrase"))>>))
        ELSE Return([self EXCEPT !.wallet_manager =
                        save_wallets([manager EXCEPT !.wallets = DictSet(@, name.v, wallet_data)])],
                    JDict(<<KV("success", JBool(TRUE)),
                            KV("wallet", JDict(<<KV("name", name),
                                                 KV("address", JStr(account.address)),
                                                 KV("mnemonic", JStr(account.mnemonic))>>))>>))

\* validate_private_key: the keys of the model that Account.from_key accepts
validate_private_key(private_key) ==
    IsStr(private_key) /\ \E a \in Accounts : a.private_key = private_key.v

\* Account.from_key
from_key(private_key) == CHOOSE a \in Accounts : a.private_key = private_key

\* import_wallet as it would be without the test of the name
import_wallet_overwriting(self, name, private_key) ==
    IF ~validate_private_key(private_key)
    THEN Return(self, JDict(<<KV("error", JStr("Invalid private key"))>>))
    ELSE Return([self EXCEPT !.wallet_manager =
                    save_wallets([@ EXCEPT !.wallets =
                        DictSet(@, name.v,
                                JDict(<<KV("name", name),
                                        KV("address", JStr(from_key(private_key.v).address)),
                                        KV("private_key", private_key),
                                        KV("created_at", JStr(ToString(time_time))),
                                        KV("chains", EmptyDict)>>))])],
                JDict(<<KV("success", JBool(TRUE)),
                        KV("wallet", JDict(<<KV("name", name),
                                             KV("address", JStr(from_key(private_key.v).address))>>))>>))

\* WalletManager.import_wallet, for a str name
import_wallet(self, name, private_key) ==
    LET manager == self.wallet_manager
        wallet_data == JDict(<<
            KV("name", name),
            KV("address", JStr(from_key(private_key.v).address)),
            KV("private_key", private_key),
            KV("created_at", JStr(ToString(time_time))),
            KV("chains", EmptyDict)>>)
    IN  IF HasKey(manager.wallets, name.v)
        THEN Return(self, JDict(<<KV("error", JStr("Wallet '" \o name.v \o "' already exists"))>>))
        ELSE IF ~validate_private_key(private_key)
        THEN Return(self, JDict(<<KV("error", JStr("Invalid private key"))>>))
        ELSE Return([self EXCEPT !.wallet_manager =
                        save_wallets([manager EXCEPT !.wallets = DictSet(@, name.v, wallet_data)])],
                    JDict(<<KV("success", JBool(TRUE)),
                            KV("wallet", JDict(<<KV("name", name),
                                                 KV("address", JStr(from_key(private_key.v).address))>>))>>))

-----------------------------------------------------------------------------
(* OmnichainManager *)

OmnichainManager == [messages |-> EmptyDict]

-----------------------------------------------------------------------------
(* GovernanceManager *)

Proposal(id, title, description, status, start, end, proposer, yes, no, abstain, total) ==
    JDict(<<KV("id", JStr(id)), KV("title", JStr(title)),
            KV("description", JStr(description)), KV("status", JStr(status)),
            KV("startTime", JInt(start)), KV("endTime", JInt(end)),
            KV("proposer", JStr(proposer)),
            KV("votes", JDict(<<KV("yes", JInt(yes)), KV("no", JInt(no)),
                                KV("abstain", JInt(abstain))>>)),
            KV("totalVotingPower", JInt(total))>>)

\* the manager after __init__ and _initialize_mock_data
GovernanceManager ==
    [proposals |-> JDict(<<
        KV("prop_001", Proposal("prop_001", "Increase ZETA Staking Rewards",
               "Proposal to increase staking rewards from 10% to 12% APY", "voting",
               time_time - 86400, time_time + 604800,
               "0x1234567890123456789012345678901234567890",
               1500000, 200000, 100000, 1800000)),
        KV("prop_002", Proposal("prop_002", "Add New Cross-Chain Bridge",
               "Proposal to add support for Avalanche bridge", "passed",
               time_time - 1209600, time_time - 259200,
               "0x2345678901234567890123456789012345678901",
               2000000, 500000, 200000, 2700000))>>)]


\* vote_on_proposal as it would be if an accepted vote were added to the total only
vote_on_proposal_total_only(self, proposal_id, voter_address, vote, voting_power) ==
    LET proposals == self.governance_manager.proposals
        proposal == Item(proposals, proposal_id.v)
        voted == DictSet(proposal, "totalVotingPower",
                         JInt(Item(proposal, "totalVotingPower").v + voting_power.v))
    IN  IF \/ ~HasKey(proposals, proposal_id.v)
           \/ ~validate_address(voter_address)
           \/ vote.v \notin {"yes", "no", "abstain"}
        THEN Return(self, JDict(<<KV("error", JStr("Vote rejected"))>>))
        ELSE IF time_time > Item(proposal, "endTime").v \/ time_time < Item(proposal, "startTime").v
        THEN Return(self, JDict(<<KV("error", JStr("Vote rejected"))>>))
        ELSE Return([self EXCEPT !.governance_manager.proposals =
                        DictSet(@, proposal_id.v, voted)],
                    JDict(<<KV("success", JBool(TRUE)),
                            KV("message", JStr("Vote cast successfully")),
                            KV("proposalId", proposal_id),
                            KV("vote", vote),
                            KV("votingPower", voting_power)>>))

\* GovernanceManager.vote_on_proposal, for a str proposal_id, a str vote and an int
\* voting_power
vote_on_proposal(self, proposal_id, voter_address, vote, voting_power) ==
    LET proposals == self.governance_manager.proposals
        proposal == Item(proposals, proposal_id.v)
        votes == Item(proposal, "votes")
        voted == DictSet(
                     DictSet(proposal, "votes",
                             DictSet(votes, vote.v, JInt(Item(votes, vote.v).v + voting_power.v))),
                     "totalVotingPower",
                     JInt(Item(proposal, "totalVotingPower").v + voting_power.v))
    IN  IF ~HasKey(proposals, proposal_id.v)
        THEN Return(self, JDict(<<KV("error", JStr("Proposal not found"))>>))
        ELSE IF ~validate_address(voter_address)
        THEN Return(self, JDict(<<KV("error", JStr("Invalid voter address"))>>))
        ELSE IF vote.v \notin {"yes", "no", "abstain"}
        THEN Return(self, JDict(<<KV("error", JStr("Invalid vote option"))>>))
        ELSE IF time_time > Item(proposal, "endTime").v
        THEN Return(self, JDict(<<KV("error", JStr("Voting period has ended"))>>))
        ELSE IF time_time < Item(proposal, "startTime").v
        THEN Return(self, JDict(<<KV("error", JStr("Voting period has not started"))>>))
        ELSE Return([self EXCEPT !.governance_manager.proposals =
                        DictSet(@, proposal_id.v, voted)],
                    JDict(<<KV("success", JBool(TRUE)),
                            KV("message", JStr("Vote cast successfully")),
                            KV("proposalId", proposal_id),
                            KV("vote", vote),
                            KV("votingPower", voting_power)>>))

-----------------------------------------------------------------------------
(* DeFiManager *)

Pool(id, tokenA, tokenB, reserveA, reserveB, totalLiquidity, apy, fee, tvl) ==
    JDict(<<KV("id", JStr(id)), KV("tokenA", JStr(tokenA)), KV("tokenB", JStr(tokenB)),
            KV("reserveA", JInt(reserveA)), KV("reserveB", JInt(reserveB)),
            KV("totalLiquidity", JInt(totalLiquidity)),
            KV("apy", JFloat(apy)), KV("fee", JFloat(fee)), KV("tvl", JInt(tvl))>>)

\* the manager after __init__ and _initialize_mock_data
DeFiManager ==
    [pools |-> JDict(<<
        KV("ZETA_USDC", Pool("ZETA_USDC", "ZETA", "USDC", 1000000, 2000000, 2000000,
                             <<31, 2>>, <<3, 10>>, 3000000)),
        KV("ETH_USDC", Pool("ETH_USDC", "ETH", "USDC", 500, 1000000, 1000000,
                            <<64, 5>>, <<3, 10>>, 2000000)),
        KV("BTC_USDC", Pool("BTC_USDC", "BTC", "USDC", 20, 800000, 800000,
                            <<41, 5>>, <<1, 2>>, 1600000))>>),
     positions |-> EmptyDict]

\* the reads of swap_tokens: the direction of the swap and the amount it pays out,
\* computed from the reserves of pool
swap_quote(pool, token_in, amount) ==
    LET a_in == token_in = Item(pool, "tokenA")
        from == Num(Item(pool, IF a_in THEN "reserveA" ELSE "reserveB"))
        to == Num(Item(pool, IF a_in THEN "reserveB" ELSE "reserveA"))
    IN  [a_in |-> a_in,
         zero |-> FAdd(from, amount)[1] = 0,
         amount_out |-> IF FAdd(from, amount)[1] = 0 THEN <<0, 1>>
                        ELSE FDiv(FMul(amount, to), FAdd(from, amount)),
         token_out |-> Item(pool, IF a_in THEN "tokenB" ELSE "tokenA")]

\* the writes of swap_tokens: the reserve paid into grows by amount, the other one
\* shrinks by the quoted amount
swap_apply(pool, quote, amount) ==
    LET into == IF quote.a_in THEN "reserveA" ELSE "reserveB"
        outof == IF quote.a_in THEN "reserveB" ELSE "reserveA"
    IN  DictSet(DictSet(pool, into, JFloat(FAdd(Num(Item(pool, into)), amount))),
                outof, JFloat(FSub(Num(Item(pool, outof)), quote.amount_out)))

\* the dict swap_tokens returns for a swap it made
swap_result(pool_id, token_in, amount, quote, user_address) ==
    JDict(<<KV("success", JBool(TRUE)),
            KV("swap", JDict(<<
                KV("poolId", pool_id),
                KV("tokenIn", token_in),
                KV("tokenOut", quote.token_out),
                KV("amountIn", JFloat(amount)),
                KV("amountOut", JFloat(quote.amount_out)),
                KV("priceImpact",
                   JStr(Format2f(FMul(FDiv(quote.amount_out, amount), <<100, 1>>)) \o "%")),
                KV("userAddress", user_address)>>))>>)

\* DeFiManager.swap_tokens, for a str pool_id: the body runs from its first line to
\* its return without awaiting anything
swap_tokens(self, pool_id, token_in, amount_in, user_address) ==
    LET pools == self.defi_manager.pools
        pool == Item(pools, pool_id.v)
        amount == float(amount_in)
        quote == swap_quote(pool, token_in, amount)
    IN  IF ~HasKey(pools, pool_id.v)
        THEN Return(self, JDict(<<KV("error", JStr("Pool not found"))>>))
        ELSE IF ~validate_address(user_address)
        THEN Return(self, JDict(<<KV("error", JStr("Invalid user address"))>>))
        ELSE IF ~validate_amount(amount_in)
        THEN Return(self, JDict(<<KV("error", JStr("Invalid input amount"))>>))
        ELSE IF quote.zero
        THEN Return(self, JDict(<<KV("error", JStr("float division by zero"))>>))
        ELSE Return([self EXCEPT !.defi_manager.pools =
                        DictSet(@, pool_id.v, swap_apply(pool, quote, amount))],
                    swap_result(pool_id, token_in, amount, quote, user_address))

\* the whole number r with r * r <= n < (r + 1) * (r + 1), sought between lo and hi
RECURSIVE SqrtBetween(_, _, _)
SqrtBetween(n, lo, hi) ==
    IF lo = hi THEN lo
    ELSE LET mid == (lo + hi + 1) \div 2
         IN  IF mid * mid <= n THEN SqrtBetween(n, mid, hi) ELSE SqrtBetween(n, lo, mid - 1)

\* x ** 0.5 for a fraction x >= 0 whose numerator and denominator are squares
FSqrt(q) == Frac(SqrtBetween(q[1], 0, 46340), SqrtBetween(q[2], 0, 46340))

\* min(p, q)
FMin(p, q) == IF p[1] * q[2] <= q[1] * p[2] THEN p ELSE q

\* the LP tokens add_liquidity mints for the amounts, None when the division fails
lp_tokens_minted(pool, amount_a, amount_b) ==
    LET reserveA == Num(Item(pool, "reserveA"))
        reserveB == Num(Item(pool, "reserveB"))
        total == Num(Item(pool, "totalLiquidity"))
    IN  IF reserveA[1] = 0 /\ reserveB[1] = 0
        THEN JFloat(FSqrt(FMul(amount_a, amount_b)))
        ELSE IF reserveA[1] = 0 \/ reserveB[1] = 0
        THEN JNull
        ELSE JFloat(FMin(FMul(FDiv(amount_a, reserveA), total),
                         FMul(FDiv(amount_b, reserveB), total)))

\* the writes of add_liquidity to the pool
add_apply(pool, amount_a, amount_b, lp_tokens) ==
    LET reserveA == FAdd(Num(Item(pool, "reserveA")), amount_a)
        reserveB == FAdd(Num(Item(pool, "reserveB")), amount_b)
    IN  DictSet(DictSet(DictSet(DictSet(pool,
            "reserveA", JFloat(reserveA)),
            "reserveB", JFloat(reserveB)),
            "totalLiquidity", JFloat(FAdd(Num(Item(pool, "totalLiquidity")), lp_tokens))),
            "tvl", JFloat(FAdd(reserveA, reserveB)))

\* the position add_liquidity records
Position(pool_id, lp_tokens, amount_a, amount_b) ==
    JDict(<<KV("poolId", pool_id), KV("lpTokens", JFloat(lp_tokens)),
            KV("tokenAAmount", JFloat(amount_a)), KV("tokenBAmount", JFloat(amount_b)),
            KV("timestamp", JInt(time_time))>>)

\* self.positions[user_address].append(position), after the list is made if need be
positions_append(positions, user_address, position) ==
    DictSet(positions, user_address,
            JList(Append(DictGet(positions, user_address, JList(<<>>)).v, position)))

\* DeFiManager.add_liquidity, for a str pool_id
add_liquidity(self, pool_id, token_a_amount, token_b_amount, user_address) ==
    LET manager == self.defi_manager
        pool == Item(manager.pools, pool_id.v)
        amount_a == float(token_a_amount)
        amount_b == float(token_b_amount)
        lp_tokens == lp_tokens_minted(pool, amount_a, amount_b)
    IN  IF ~HasKey(manager.pools, pool_id.v)
        THEN Return(self, JDict(<<KV("error", JStr("Pool not found"))>>))
        ELSE IF ~validate_address(user_address)
        THEN Return(self, JDict(<<KV("error", JStr("Invalid user address"))>>))
        ELSE IF ~validate_amount(token_a_amount) \/ ~validate_amount(token_b_amount)
        THEN Return(self, JDict(<<KV("error", JStr("Invalid amounts"))>>))
        ELSE IF lp_tokens = JNull
        THEN Return(self, JDict(<<KV("error", JStr("float division by zero"))>>))
        ELSE Return([self EXCEPT !.defi_manager =
                        [pools |-> DictSet(manager.pools, pool_id.v,
                                           add_apply(pool, amount_a, amount_b, lp_tokens.v)),
                         positions |-> positions_append(
                                           manager.positions, user_address.v,
                                           Position(pool_id, lp_tokens.v, amount_a, amount_b))]],
                    JDict(<<KV("success", JBool(TRUE)),
                            KV("transaction", JDict(<<
                                KV("poolId", pool_id),
                                KV("lpTokens", lp_tokens),
                                KV("tokenAAmount", JFloat(amount_a)),
                                KV("tokenBAmount", JFloat(amount_b)),
                                KV("userAddress", user_address)>>))>>))

\* the share of the reserve that remove_liquidity pays out for lp_amount LP tokens
remove_share(pool, lp_amount, reserve) ==
    FMul(FDiv(lp_amount, Num(Item(pool, "totalLiquidity"))), Num(Item(pool, reserve)))

\* the writes of remove_liquidity to the pool
remove_apply(pool, lp_amount) ==
    LET reserveA == FSub(Num(Item(pool, "reserveA")), remove_share(pool, lp_amount, "reserveA"))
        reserveB == FSub(Num(Item(pool, "reserveB")), remove_share(pool, lp_amount, "reserveB"))
    IN  DictSet(DictSet(DictSet(DictSet(pool,
            "reserveA", JFloat(reserveA)),
            "reserveB", JFloat(reserveB)),
            "totalLiquidity", JFloat(FSub(Num(Item(pool, "totalLiquidity")), lp_amount))),
            "tvl", JFloat(FAdd(reserveA, reserveB)))

\* the dict remove_liquidity returns for a removal it made
remove_result(pool, pool_id, lp_amount, user_address) ==
    JDict(<<KV("success", JBool(TRUE)),
            KV("transaction", JDict(<<
                KV("poolId", pool_id),
                KV("lpTokens", JFloat(lp_amount)),
                KV("tokenAAmount", JFloat(remove_share(pool, lp_amount, "reserveA"))),
                KV("tokenBAmount", JFloat(remove_share(pool, lp_amount, "reserveB"))),
                KV("userAddress", user_address)>>))>>)

\* remove_liquidity as it would be if it took the LP tokens off the total before it
\* computed the amounts to pay out
remove_liquidity_writing_first(self, pool_id, lp_tokens, user_address) ==
    LET pools == self.defi_manager.pools
        pool == Item(pools, pool_id.v)
        lp_amount == float(lp_tokens)
    IN  IF ~HasKey(pools, pool_id.v)
        THEN Return(self, JDict(<<KV("error", JStr("Pool not found"))>>))
        ELSE IF ~validate_address(user_address)
        THEN Return(self, JDict(<<KV("error", JStr("Invalid user address"))>>))
        ELSE IF ~validate_amount(lp_tokens)
        THEN Return(self, JDict(<<KV("error", JStr("Invalid LP token amount"))>>))
        ELSE IF Num(Item(pool, "totalLiquidity"))[1] = 0
        THEN Return([self EXCEPT !.defi_manager.pools =
                        DictSet(@, pool_id.v,
                                DictSet(pool, "totalLiquidity", JFloat(FSub(<<0, 1>>, lp_amount))))],
                    JDict(<<KV("error", JStr("float division by zero"))>>))
        ELSE Return([self EXCEPT !.defi_manager.pools =
                        DictSet(@, pool_id.v, remove_apply(pool, lp_amount))],
                    remove_result(pool, pool_id, lp_amount, user_address))

\* DeFiManager.remove_liquidity, for a str pool_id
remove_liquidity(self, pool_id, lp_tokens, user_address) ==
    LET pools == self.defi_manager.pools
        pool == Item(pools, pool_id.v)
        lp_amount == float(lp_tokens)
    IN  IF ~HasKey(pools, pool_id.v)
        THEN Return(self, JDict(<<KV("error", JStr("Pool not found"))>>))
        ELSE IF ~validate_address(user_address)
        THEN Return(self, JDict(<<KV("error", JStr("Invalid user address"))>>))
        ELSE IF ~validate_amount(lp_tokens)
        THEN Return(self, JDict(<<KV("error", JStr("Invalid LP token amount"))>>))
        ELSE IF Num(Item(pool, "totalLiquidity"))[1] = 0
        THEN Return(self, JDict(<<KV("error", JStr("float division by zero"))>>))
        ELSE Return([self EXCEPT !.defi_manager.pools =
                        DictSet(@, pool_id.v, remove_apply(pool, lp_amount))],
                    remove_result(pool, pool_id, lp_amount, user_address))

-----------------------------------------------------------------------------
(* The queries of the managers *)

\* f"{x:.1f}" for a float x >= 0: the tenths rounded to the nearest, a tie to the
\* even one
Format1f(q) ==
    LET whole == q[1] \div q[2]
        rest == (q[1] % q[2]) * 10
        down == rest \div q[2]
        twice == 2 * (rest % q[2])
        tenths == IF twice > q[2] \/ (twice = q[2] /\ down % 2 = 1) THEN down + 1 ELSE down
    IN  IF tenths = 10 THEN ToString(whole + 1) \o ".0"
        ELSE ToString(whole) \o "." \o ToString(tenths)

\* the values of d, in insertion order
Values(d) == [i \in DOMAIN d.v |-> d.v[i].v]

\* sum(numbers): an int when every number is one, else a float
RECURSIVE FSum(_)
FSum(numbers) ==
    IF numbers = <<>> THEN <<0, 1>>
    ELSE FAdd(FSum(SubSeq(numbers, 1, Len(numbers) - 1)), Num(numbers[Len(numbers)]))

JSum(numbers) ==
    IF \A i \in DOMAIN numbers : numbers[i].t = "int"
    THEN JInt(FSum(numbers)[1])
    ELSE JFloat(FSum(numbers))

\* the number of values of d whose entry under key is val
CountWhere(d, key, val) == Cardinality({i \in DOMAIN d.v : Item(d.v[i].v, key) = val})

\* items.sort(key=lambda x: x[key], reverse=True): the larger first, equal ones in
\* the order they had
RECURSIVE SortedDesc(_, _)
SortedDesc(items, key) ==
    IF items = <<>> THEN <<>>
    ELSE LET x == items[Len(items)]
             before == SortedDesc(SubSeq(items, 1, Len(items) - 1), key)
             ahead == SelectSeq(before,
                          LAMBDA y : FSub(Num(Item(y, key)), Num(Item(x, key)))[1] >= 0)
             behind == SelectSeq(before,
                          LAMBDA y : FSub(Num(Item(y, key)), Num(Item(x, key)))[1] < 0)
         IN  ahead \o <<x>> \o behind

\* hashlib.sha256(...).hexdigest()[:16] of the fields and the second: of the digest
\* the model keeps that it is a function of the text that goes in
message_digest(from_chain, to_chain, message, sender_address, recipient_address) ==
    IF message.v = "hello" THEN "2cf24dba5fb0a30e" ELSE "486ea46224d1bb4f"

\* OmnichainManager.send_omnichain_message, for str chains and a str message
send_omnichain_message(self, from_chain, to_chain, message, sender_address, recipient_address) ==
    LET message_id == message_digest(from_chain, to_chain, message, sender_address,
                                     recipient_address)
        message_data == JDict(<<
            KV("id", JStr(message_id)),
            KV("fromChain", from_chain),
            KV("toChain", to_chain),
            KV("message", message),
            KV("senderAddress", sender_address),
            KV("recipientAddress", recipient_address),
            KV("timestamp", JInt(time_time)),
            KV("status", JStr("pending"))>>)
    IN  IF ~validate_address(sender_address) \/ ~validate_address(recipient_address)
        THEN Return(self, JDict(<<KV("error", JStr("Invalid address"))>>))
        ELSE Return([self EXCEPT !.omnichain_manager.messages = DictSet(@, message_id, message_data)],
                    JDict(<<KV("success", JBool(TRUE)),
                            KV("messageId", JStr(message_id)),
                            KV("status", JStr("pending")),
                            KV("estimatedDelivery", JStr("5-10 minutes"))>>))

\* the statuses random.choice picks from
MessageStatuses == {"pending", "confirmed", "delivered", "failed"}

\* get_message_status as it would be if it left the stored message alone
get_message_status_reading(self, message_id, current_status) ==
    IF ~HasKey(self.omnichain_manager.messages, message_id.v)
    THEN Return(self, JDict(<<KV("error", JStr("Message not found"))>>))
    ELSE Return(self,
                JDict(<<KV("success", JBool(TRUE)),
                        KV("message", DictSet(Item(self.omnichain_manager.messages, message_id.v),
                                              "status", JStr(current_status)))>>))

\* OmnichainManager.get_message_status, for a str message_id; current_status is what
\* random.choice picks
get_message_status(self, message_id, current_status) ==
    LET messages == self.omnichain_manager.messages
        message_data == DictSet(Item(messages, message_id.v), "status", JStr(current_status))
    IN  IF ~HasKey(messages, message_id.v)
        THEN Return(self, JDict(<<KV("error", JStr("Message not found"))>>))
        ELSE Return([self EXCEPT !.omnichain_manager.messages =
                        DictSet(@, message_id.v, message_data)],
                    JDict(<<KV("success", JBool(TRUE)), KV("message", message_data)>>))

\* OmnichainManager.get_messages, for an int limit >= 0; the addresses of the model
\* hold no letters, so lower() leaves them as they are
get_messages(self, address, limit) ==
    LET mine == SelectSeq(Values(self.omnichain_manager.messages),
                    LAMBDA m : \/ Item(m, "senderAddress") = address
                               \/ Item(m, "recipientAddress") = address)
        newest == SortedDesc(mine, "timestamp")
        user_messages == SubSeq(newest, 1, IF limit.v < Len(newest) THEN limit.v ELSE Len(newest))
    IN  IF ~validate_address(address)
        THEN Return(self, JDict(<<KV("error", JStr("Invalid address"))>>))
        ELSE Return(self, JDict(<<KV("success", JBool(TRUE)),
                                  KV("messages", JList(user_messages)),
                                  KV("count", JInt(Len(user_messages)))>>))

\* OmnichainManager.get_omnichain_stats
get_omnichain_stats(self) ==
    LET messages == self.omnichain_manager.messages
        total == Len(messages.v)
        delivered == CountWhere(messages, "status", JStr("delivered"))
        addresses == {Item(messages.v[i].v, "senderAddress") : i \in DOMAIN messages.v}
                         \cup {Item(messages.v[i].v, "recipientAddress") : i \in DOMAIN messages.v}
    IN  Return(self, JDict(<<
            KV("success", JBool(TRUE)),
            KV("stats", JDict(<<
                KV("totalMessages", JInt(total)),
                KV("pendingMessages", JInt(CountWhere(messages, "status", JStr("pending")))),
                KV("confirmedMessages", JInt(CountWhere(messages, "status", JStr("confirmed")))),
                KV("deliveredMessages", JInt(delivered)),
                KV("failedMessages", JInt(CountWhere(messages, "status", JStr("failed")))),
                KV("uniqueAddresses", JInt(Cardinality(addresses))),
                KV("successRate",
                   JStr(Format1f(FMul(Frac(delivered, IF total > 1 THEN total ELSE 1), <<100, 1>>))
                            \o "%"))>>))>>))

\* GovernanceManager.get_proposals, for a status that is a str or None
get_proposals(self, status) ==
    LET all == Values(self.governance_manager.proposals)
        proposals == IF IsStr(status) /\ status.v # ""
                     THEN SelectSeq(all, LAMBDA p : Item(p, "status") = status)
                     ELSE all
    IN  Return(self, JDict(<<KV("success", JBool(TRUE)),
                             KV("proposals", JList(SortedDesc(proposals, "startTime"))),
                             KV("count", JInt(Len(proposals)))>>))

\* the share of the votes as get_proposal writes it
VoteShare(votes, option) ==
    JStr(Format1f(FMul(FDiv(Num(Item(votes, option)), FSum(Values(votes))), <<100, 1>>)) \o "%")

\* the proposal with the percentages get_proposal computes, when there are votes
with_percentages(proposal) ==
    IF FSum(Values(Item(proposal, "votes")))[1] > 0
    THEN DictSet(proposal, "votePercentages",
                 JDict(<<KV("yes", VoteShare(Item(proposal, "votes"), "yes")),
                         KV("no", VoteShare(Item(proposal, "votes"), "no")),
                         KV("abstain", VoteShare(Item(proposal, "votes"), "abstain"))>>))
    ELSE proposal

\* get_proposal as it would be if it computed the percentages on a copy
get_proposal_reading(self, proposal_id) ==
    IF ~HasKey(self.governance_manager.proposals, proposal_id.v)
    THEN Return(self, JDict(<<KV("error", JStr("Proposal not found"))>>))
    ELSE Return(self,
                JDict(<<KV("success", JBool(TRUE)),
                        KV("proposal",
                           with_percentages(Item(self.governance_manager.proposals,
                                                 proposal_id.v)))>>))

\* GovernanceManager.get_proposal, for a str proposal_id
get_proposal(self, proposal_id) ==
    LET proposals == self.governance_manager.proposals
        proposal == with_percentages(Item(proposals, proposal_id.v))
    IN  IF ~HasKey(proposals, proposal_id.v)
        THEN Return(self, JDict(<<KV("error", JStr("Proposal not found"))>>))
        ELSE Return([self EXCEPT !.governance_manager.proposals =
                        DictSet(@, proposal_id.v, proposal)],
                    JDict(<<KV("success", JBool(TRUE)), KV("proposal", proposal)>>))

\* GovernanceManager.get_governance_stats
get_governance_stats(self) ==
    LET proposals == self.governance_manager.proposals
        total_proposals == Len(proposals.v)
        total_voting_power ==
            JSum([i \in DOMAIN proposals.v |-> Item(proposals.v[i].v, "totalVotingPower")])
    IN  Return(self, JDict(<<
            KV("success", JBool(TRUE)),
            KV("stats", JDict(<<
                KV("totalProposals", JInt(total_proposals)),
                KV("activeProposals", JInt(CountWhere(proposals, "status", JStr("voting")))),
                KV("passedProposals", JInt(CountWhere(proposals, "status", JStr("passed")))),
                KV("failedProposals", JInt(CountWhere(proposals, "status", JStr("failed")))),
                KV("totalVotingPower", total_voting_power),
                KV("averageParticipation",
                   JInt(total_voting_power.v
                            \div (IF total_proposals > 1 THEN total_proposals ELSE 1)))>>))>>))

\* DeFiManager.get_pools
get_pools(self) ==
    Return(self, JDict(<<KV("success", JBool(TRUE)),
                         KV("pools", JList(SortedDesc(Values(self.defi_manager.pools), "tvl"))),
                         KV("count", JInt(Len(self.defi_manager.pools.v)))>>))

\* the pool with the metrics get_pool_info computes, for a pool whose reserveA is not 0
with_metrics(pool) ==
    LET volume24h == FMul(Num(Item(pool, "tvl")), <<1, 10>>)
    IN  DictSet(DictSet(DictSet(pool,
            "priceRatio", JFloat(FDiv(Num(Item(pool, "reserveB")), Num(Item(pool, "reserveA"))))),
            "volume24h", JFloat(volume24h)),
            "fees24h", JFloat(FMul(volume24h, FDiv(Num(Item(pool, "fee")), <<100, 1>>))))

\* DeFiManager.get_pool_info, for a str pool_id
get_pool_info(self, pool_id) ==
    LET pools == self.defi_manager.pools
        pool == Item(pools, pool_id.v)
    IN  IF ~HasKey(pools, pool_id.v)
        THEN Return(self, JDict(<<KV("error", JStr("Pool not found"))>>))
        ELSE IF Num(Item(pool, "reserveA"))[1] = 0
        THEN Return(self, JDict(<<KV("error",
                 JStr(IF Item(pool, "reserveA").t = "int" /\ Item(pool, "reserveB").t = "int"
                      THEN "division by zero" ELSE "float division by zero"))>>))
        ELSE Return([self EXCEPT !.defi_manager.pools = DictSet(@, pool_id.v, with_metrics(pool))],
                    JDict(<<KV("success", JBool(TRUE)), KV("pool", with_metrics(pool))>>))

\* the division of get_user_positions fails for the position: its pool has no liquidity
ValueFails(pools, position) ==
    /\ HasKey(pools, Item(position, "poolId").v)
    /\ Num(Item(Item(pools, Item(position, "poolId").v), "totalLiquidity"))[1] = 0

\* the position with the current values get_user_positions computes
with_values(pools, position) ==
    IF ~HasKey(pools, Item(position, "poolId").v) THEN position
    ELSE LET pool == Item(pools, Item(position, "poolId").v)
             share == FDiv(Num(Item(position, "lpTokens")), Num(Item(pool, "totalLiquidity")))
             current_value_a == FMul(share, Num(Item(pool, "reserveA")))
             current_value_b == FMul(share, Num(Item(pool, "reserveB")))
         IN  DictSet(DictSet(DictSet(position,
                 "currentValueA", JFloat(current_value_a)),
                 "currentValueB", JFloat(current_value_b)),
                 "totalValue", JFloat(FAdd(current_value_a, current_value_b)))

\* the positions after the loop of get_user_positions: those before the first one
\* whose division fails have their values
valued(pools, positions) ==
    [i \in DOMAIN positions |->
        IF \E j \in 1 .. i : ValueFails(pools, positions[j])
        THEN positions[i]
        ELSE with_values(pools, positions[i])]

\* DeFiManager.get_user_positions
get_user_positions(self, user_address) ==
    LET manager == self.defi_manager
        held == HasKey(manager.positions, user_address.v)
        positions == IF held THEN Item(manager.positions, user_address.v).v ELSE <<>>
        after == IF held
                 THEN [self EXCEPT !.defi_manager.positions =
                          DictSet(@, user_address.v, JList(valued(manager.pools, positions)))]
                 ELSE self
    IN  IF ~validate_address(user_address)
        THEN Return(self, JDict(<<KV("error", JStr("Invalid user address"))>>))
        ELSE IF \E i \in DOMAIN positions : ValueFails(manager.pools, positions[i])
        THEN Return(after, JDict(<<KV("error", JStr("float division by zero"))>>))
        ELSE Return(after, JDict(<<KV("success", JBool(TRUE)),
                                   KV("positions", JList(valued(manager.pools, positions))),
                                   KV("count", JInt(Len(positions)))>>))

\* DeFiManager.get_defi_stats
get_defi_stats(self) ==
    LET pools == self.defi_manager.pools
        positions == self.defi_manager.positions
        total_pools == Len(pools.v)
        avg_apy == FDiv(FSum([i \in DOMAIN pools.v |-> Item(pools.v[i].v, "apy")]),
                        <<total_pools, 1>>)
    IN  Return(self, JDict(<<
            KV("success", JBool(TRUE)),
            KV("stats", JDict(<<
                KV("totalTVL", JSum([i \in DOMAIN pools.v |-> Item(pools.v[i].v, "tvl")])),
                KV("totalPools", JInt(total_pools)),
                KV("averageAPY", JStr(Format1f(avg_apy) \o "%")),
                KV("totalPositions",
                   JSum([i \in DOMAIN positions.v |-> JInt(Len(positions.v[i].v.v))])),
                KV("uniqueUsers", JInt(Len(positions.v)))>>))>>))

-----------------------------------------------------------------------------
(* MCPServer and ZetaChainMCPServer *)

\* the object after __init__; load_calls counts the executions of _load_tools
ZetaChainMCPServer ==
    [initialized |-> FALSE,
     tools |-> <<>>,
     transport |-> StdioTransport,
     connection |-> ZetaChainConnection,
     wallet_manager |-> WalletManager,
     omnichain_manager |-> OmnichainManager,
     governance_manager |-> GovernanceManager,
     defi_manager |-> DeFiManager,
     load_calls |-> 0]

CapabilityPayload ==
    JDict(<<
        KV("protocolVersion", JStr("2024-11-05")),
        KV("capabilities", JDict(<<
            KV("tools", JDict(<<KV("listChanged", JBool(TRUE))>>)),
            KV("resources", JDict(<<KV("subscribe", JBool(TRUE)), KV("listChanged", JBool(TRUE))>>)),
            KV("prompts", JDict(<<KV("listChanged", JBool(TRUE))>>)),
            KV("logging", EmptyDict),
            KV("experimental", EmptyDict)>>)),
        KV("serverInfo", JDict(<<KV("name", JStr("zetachain-mcp-server")),
                                 KV("version", JStr("1.0.0"))>>))>>)

\* ZetaChainMCPServer._load_tools
load_tools(self) == [self EXCEPT !.tools = ToolDescriptors, !.load_calls = @ + 1]

\* initialize as it would be if only the first call returned the payload
initialize_payload_once(self) ==
    Return(IF ~self.initialized THEN [load_tools(self) EXCEPT !.initialized = TRUE] ELSE self,
           IF ~self.initialized THEN CapabilityPayload ELSE JNull)

\* initialize as it would be without the test of the flag
initialize_unguarded(self) ==
    Return([load_tools(self) EXCEPT !.initialized = TRUE], CapabilityPayload)

\* MCPServer.initialize
initialize(self) ==
    Return(IF ~self.initialized THEN [load_tools(self) EXCEPT !.initialized = TRUE] ELSE self,
           CapabilityPayload)

\* list_tools as it would be if it loaded the tools on first use
list_tools_loading(self) ==
    Return(IF ~self.initialized THEN load_tools(self) ELSE self,
           JList(IF ~self.initialized THEN ToolDescriptors ELSE self.tools))

\* list_tools as it would be if it listed every descriptor twice
list_tools_doubled(self) == Return(self, JList(self.tools \o self.tools))

\* MCPServer.list_tools
list_tools(self) == Return(self, JList(self.tools))


\* the lookup as it would be if the class lacked the method tool_get_supported_chains
HasHandler_without_chains(name) ==
    IsStr(name) /\ name.v \in HandlerNames \ {"get_supported_chains"}

\* getattr(self, f"tool_{name}", None) finds a method
HasHandler(name) == IsStr(name) /\ name.v \in HandlerNames

QualName(name) == "ZetaChainMCPServer.tool_" \o name \o "()"

Quoted(names) == [i \in DOMAIN names |-> "'" \o names[i] \o "'"]

RECURSIVE CommaJoin(_)
CommaJoin(parts) ==
    IF Len(parts) = 1 THEN parts[1] ELSE parts[1] \o ", " \o CommaJoin(Tail(parts))

\* the names as a TypeError lists them: 'a' / 'a' and 'b' / 'a', 'b', and 'c'
NameList(names) ==
    LET q == Quoted(names)
    IN  IF Len(q) = 1 THEN q[1]
        ELSE IF Len(q) = 2 THEN q[1] \o " and " \o q[2]
        ELSE CommaJoin(SubSeq(q, 1, Len(q) - 1)) \o ", and " \o q[Len(q)]

SelectSeqIn(seq, set) == SelectSeq(seq, LAMBDA x : x \in set)

\* the TypeError that calling tool_<name>(**arguments) raises before the method body
\* runs, or "" when the arguments fit the parameters
BindError(name, arguments) ==
    LET sig == Signature(name)
        params == Range(sig.required) \cup Range(sig.optional)
    IN  IF ~IsDict(arguments)
        THEN "zetachain_mcp_server.server." \o QualName(name)
             \o " argument after ** must be a mapping, not " \o TypeName(arguments)
        ELSE LET unexpected == SelectSeqIn(Keys(arguments), Range(Keys(arguments)) \ params)
                 missing == SelectSeqIn(sig.required, Range(sig.required) \ Range(Keys(arguments)))
             IN  IF unexpected # <<>>
                 THEN QualName(name) \o " got an unexpected keyword argument '"
                      \o unexpected[1] \o "'"
                 ELSE IF missing # <<>>
                 THEN QualName(name) \o " missing " \o ToString(Len(missing))
                      \o " required positional argument"
                      \o (IF Len(missing) = 1 THEN "" ELSE "s") \o ": " \o NameList(missing)
                 ELSE ""

\* the body of tool_<name>, for the tool_* methods the model follows
tool_body(self, name, arguments, env) ==
    CASE name = "get_supported_chains" -> get_supported_chains(self)
      [] name = "get_bridge_info" ->
           get_bridge_info(self, Item(arguments, "from_chain"), Item(arguments, "to_chain"))
      [] name = "get_network_info" ->
           get_network_info(self, DictGet(arguments, "chain", JStr("zetachain")), env)
      [] name = "create_wallet" ->
           create_wallet(self, Item(arguments, "name"), DictGet(arguments, "mnemonic", JNull), env)
      [] name = "import_wallet" ->
           import_wallet(self, Item(arguments, "name"), Item(arguments, "private_key"))
      [] name = "vote_on_proposal" ->
           vote_on_proposal(self, Item(arguments, "proposal_id"), Item(arguments, "voter_address"),
                            Item(arguments, "vote"), Item(arguments, "voting_power"))
      [] name = "send_omnichain_message" ->
           send_omnichain_message(self, Item(arguments, "from_chain"), Item(arguments, "to_chain"),
                                  Item(arguments, "message"), Item(arguments, "sender_address"),
                                  Item(arguments, "recipient_address"))
      [] name = "get_message_status" ->
           get_message_status(self, Item(arguments, "message_id"), env.choice)
      [] name = "get_messages" ->
           get_messages(self, Item(arguments, "address"), DictGet(arguments, "limit", JInt(10)))
      [] name = "get_omnichain_stats" -> get_omnichain_stats(self)
      [] name = "get_proposals" -> get_proposals(self, DictGet(arguments, "status", JNull))
      [] name = "get_proposal" -> get_proposal(self, Item(arguments, "proposal_id"))
      [] name = "get_governance_stats" -> get_governance_stats(self)
      [] name = "get_pools" -> get_pools(self)
      [] name = "get_pool_info" -> get_pool_info(self, Item(arguments, "pool_id"))
      [] name = "get_user_positions" -> get_user_positions(self, Item(arguments, "user_address"))
      [] name = "get_defi_stats" -> get_defi_stats(self)
      [] name = "add_liquidity" ->
           add_liquidity(self, Item(arguments, "pool_id"), Item(arguments, "token_a_amount"),
                         Item(arguments, "token_b_amount"), Item(arguments, "user_address"))
      [] name = "remove_liquidity" ->
           remove_liquidity(self, Item(arguments, "pool_id"), Item(arguments, "lp_tokens"),
                            Item(arguments, "user_address"))
      [] name = "swap_tokens" ->
           swap_tokens(self, Item(arguments, "pool_id"), Item(arguments, "token_in"),
                       Item(arguments, "amount_in"), Item(arguments, "user_address"))

\* raise TypeError(error) when there is one, else go on
RaiseTypeError(self, error, otherwise) ==
    IF error # "" THEN Raise(self, "TypeError", error) ELSE otherwise

\* await tool_method(**arguments)
tool_method(self, name, arguments, env) ==
    RaiseTypeError(self, BindError(name, arguments), tool_body(self, name, arguments, env))

NoHandler == [invoked |-> FALSE]

Outcome(name, r) == [invoked |-> TRUE, name |-> name, raised |-> r.raised, value |-> r.value]

WithHandler(r, h) == [self |-> r.self, raised |-> r.raised, value |-> r.value, handler |-> h]

\* the try block of call_tool as it would be without the except clause
Envelope_propagating(name, r) ==
    WithHandler(
        IF ~r.raised
        THEN Return(r.self, JDict(<<KV("success", JBool(TRUE)), KV("result", r.value)>>))
        ELSE r,
        Outcome(name, r))

\* the try block of call_tool, given what the awaited tool method did
Envelope(name, r) ==
    WithHandler(
        IF ~r.raised
        THEN Return(r.self, JDict(<<KV("success", JBool(TRUE)), KV("result", r.value)>>))
        ELSE Return(r.self, JDict(<<KV("success", JBool(FALSE)), KV("error", JStr(r.value.msg))>>)),
        Outcome(name, r))

\* call_tool as it would be if the arguments were bound before the try block
call_tool_binding_outside_try(self, name, arguments, env) ==
    IF ~HasHandler(name)
    THEN WithHandler(Raise(self, "ValueError", "Tool '" \o PyStr(name) \o "' not found"),
                     NoHandler)
    ELSE IF BindError(name.v, arguments) # ""
    THEN WithHandler(Raise(self, "TypeError", BindError(name.v, arguments)), NoHandler)
    ELSE Envelope(name.v, tool_method(self, name.v, arguments, env))

\* call_tool as it would be if the lookup failure were raised inside the try block
call_tool_enveloping_lookup(self, name, arguments, env) ==
    IF ~HasHandler(name)
    THEN WithHandler(
             Return(self, JDict(<<KV("success", JBool(FALSE)),
                                  KV("error", JStr("Tool '" \o PyStr(name) \o "' not found"))>>)),
             NoHandler)
    ELSE Envelope(name.v, tool_method(self, name.v, arguments, env))

\* MCPServer.call_tool
call_tool(self, name, arguments, env) ==
    IF ~HasHandler(name)
    THEN WithHandler(Raise(self, "ValueError", "Tool '" \o PyStr(name) \o "' not found"),
                     NoHandler)
    ELSE Envelope(name.v, tool_method(self, name.v, arguments, env))

ResultResponse(request_id, result) ==
    JDict(<<KV("jsonrpc", JStr("2.0")), KV("id", request_id), KV("result", result)>>)

\* an error response as it would be if it also carried a null result
ErrorResponse_with_result(request_id, code, message) ==
    JDict(<<KV("jsonrpc", JStr("2.0")), KV("id", request_id), KV("result", JNull),
            KV("error", JDict(<<KV("code", JInt(code)), KV("message", JStr(message))>>))>>)

ErrorResponse(request_id, code, message) ==
    JDict(<<KV("jsonrpc", JStr("2.0")), KV("id", request_id),
            KV("error", JDict(<<KV("code", JInt(code)), KV("message", JStr(message))>>))>>)

NoGetMsg(x) == "'" \o TypeName(x) \o "' object has no attribute 'get'"

\* the tools/call branch as it would be if it serialized the handler's value without
\* the envelope around it
Content_bare(r, request_id) ==
    IF r.raised
    THEN r
    ELSE WithHandler(
             Return(r.self,
                    ResultResponse(request_id, JDict(<<
                        KV("content", JList(<<JDict(<<
                            KV("type", JStr("text")),
                            KV("text", JStr(json_dumps(r.value.v[2].v)))>>)>>))>>))),
             r.handler)

\* the response of the tools/call branch, given what call_tool did
Content(r, request_id) ==
    IF r.raised
    THEN r
    ELSE WithHandler(
             Return(r.self,
                    ResultResponse(request_id, JDict(<<
                        KV("content", JList(<<JDict(<<
                            KV("type", JStr("text")),
                            KV("text", JStr(json_dumps(r.value)))>>)>>))>>))),
             r.handler)

\* the tools/call branch as it would be if it refused to run before initialize
tools_call_requiring_initialize(self, params, request_id, env) ==
    IF ~self.initialized
    THEN WithHandler(Raise(self, "RuntimeError", "Server not initialized"), NoHandler)
    ELSE IF ~IsDict(params)
    THEN WithHandler(Raise(self, "AttributeError", NoGetMsg(params)), NoHandler)
    ELSE Content(call_tool(self, DictGet(params, "name", JNull),
                           DictGet(params, "arguments", EmptyDict), env),
                 request_id)

\* the tools/call branch of handle_request's try block
tools_call(self, params, request_id, env) ==
    IF ~IsDict(params)
    THEN WithHandler(Raise(self, "AttributeError", NoGetMsg(params)), NoHandler)
    ELSE Content(call_tool(self, DictGet(params, "name", JNull),
                           DictGet(params, "arguments", EmptyDict), env),
                 request_id)

\* the initialize branch
InitializeResponse(r, request_id) ==
    WithHandler(Return(r.self, ResultResponse(request_id, r.value)), NoHandler)

\* the tools/list branch
ToolsListResponse(r, request_id) ==
    WithHandler(Return(r.self, ResultResponse(request_id, JDict(<<KV("tools", r.value)>>))),
                NoHandler)

\* the try block as it would be if the else branch raised instead of answering -32601
dispatch_raising_unknown(self, method, params, request_id, env) ==
    IF method = JStr("initialize")
    THEN InitializeResponse(initialize(self), request_id)
    ELSE IF method = JStr("tools/list")
    THEN ToolsListResponse(list_tools(self), request_id)
    ELSE IF method = JStr("tools/call")
    THEN tools_call(self, params, request_id, env)
    ELSE WithHandler(Raise(self, "ValueError", "Method not found: " \o PyStr(method)),
                     NoHandler)

\* the try block as it would be if the else branch initialized the server before
\* it answered -32601
dispatch_initializing_unknown(self, method, params, request_id, env) ==
    IF method = JStr("initialize")
    THEN InitializeResponse(initialize(self), request_id)
    ELSE IF method = JStr("tools/list")
    THEN ToolsListResponse(list_tools(self), request_id)
    ELSE IF method = JStr("tools/call")
    THEN tools_call(self, params, request_id, env)
    ELSE WithHandler(
             Return(initialize(self).self,
                    ErrorResponse(request_id, -32601, "Method not found: " \o PyStr(method))),
             NoHandler)

\* the try block of handle_request: the branch for the method, which returns the
\* response or raises
dispatch(self, method, params, request_id, env) ==
    IF method = JStr("initialize")
    THEN InitializeResponse(initialize(self), request_id)
    ELSE IF method = JStr("tools/list")
    THEN ToolsListResponse(list_tools(self), request_id)
    ELSE IF method = JStr("tools/call")
    THEN tools_call(self, params, request_id, env)
    ELSE WithHandler(
             Return(self, ErrorResponse(request_id, -32601,
                                        "Method not found: " \o PyStr(method))),
             NoHandler)

\* the except clause as it would be if it caught ValueError only
Caught_value_errors_only(r, request_id) ==
    IF r.raised /\ r.value.type = "ValueError"
    THEN WithHandler(Return(r.self, ErrorResponse(request_id, -32603, r.value.msg)), r.handler)
    ELSE r

\* the except clause as it would be if it answered with the invalid-params code
Caught_as_invalid_params(r, request_id) ==
    IF r.raised
    THEN WithHandler(Return(r.self, ErrorResponse(request_id, -32602, r.value.msg)), r.handler)
    ELSE r

\* the except clause of handle_request: an exception of the try block becomes the
\* -32603 response
Caught(r, request_id) ==
    IF r.raised
    THEN WithHandler(Return(r.self, ErrorResponse(request_id, -32603, r.value.msg)), r.handler)
    ELSE r

\* handle_request as it would be with request.get("id") in place of request.get("id", "1")
handle_request_id_default_none(self, request, env) ==
    IF ~IsDict(request)
    THEN WithHandler(Raise(self, "AttributeError", NoGetMsg(request)), NoHandler)
    ELSE Caught(dispatch(self,
                         DictGet(request, "method", JNull),
                         DictGet(request, "params", EmptyDict),
                         DictGet(request, "id", JNull),
                         env),
                DictGet(request, "id", JNull))

\* MCPServer.handle_request: request.get raises when the request is no mapping
handle_request(self, request, env) ==
    IF ~IsDict(request)
    THEN WithHandler(Raise(self, "AttributeError", NoGetMsg(request)), NoHandler)
    ELSE Caught(dispatch(self,
                         DictGet(request, "method", JNull),
                         DictGet(request, "params", EmptyDict),
                         DictGet(request, "id", JStr("1")),
                         env),
                DictGet(request, "id", JStr("1")))

\* close as it would be if it also emptied the tool list
close_clearing_tools(self) ==
    Return([self EXCEPT !.connection = connection_close(@),
                        !.transport = transport_close(@),
                        !.tools = <<>>],
           JNull)

\* close as it would be if it also cleared the initialized flag, as the connection's does
close_resetting(self) ==
    Return([self EXCEPT !.connection = connection_close(@),
                        !.transport = transport_close(@),
                        !.initialized = FALSE],
           JNull)

\* ZetaChainMCPServer.close: the connection, then MCPServer.close
close(self) ==
    Return([self EXCEPT !.connection = connection_close(@),
                        !.transport = transport_close(@)],
           JNull)

-----------------------------------------------------------------------------
(* The stream adapter: one pass of the loop of MCPServer.run *)

\* what sys.stdin.readline returns at the end of the input
EOF == ""

\* str.strip() on the lines of the model: only the blank line has white space to strip
Strip(line) == IF line = "  " THEN "" ELSE line

\* read_request as it would be without the strip
read_request_unstripped(transport, line) ==
    IF transport.closed \/ line = EOF THEN JNull ELSE JStr(line)

\* StdioTransport.read_request: None when the transport is closed or the input has
\* ended, else the line stripped
read_request(transport, line) ==
    IF transport.closed \/ line = EOF THEN JNull ELSE JStr(Strip(line))

\* json.loads on the lines of the model: the value, or the JSONDecodeError's text
json_loads(text) ==
    CASE text = "{bad" ->
           [ok |-> FALSE,
            error |-> "Expecting property name enclosed in double quotes: line 1 column 2 (char 1)"]
      [] text = "  " -> [ok |-> FALSE, error |-> "Expecting value: line 1 column 3 (char 2)"]
      [] text = "[1]" -> [ok |-> TRUE, value |-> JList(<<JInt(1)>>)]
      [] text = "null" -> [ok |-> TRUE, value |-> JNull]
      [] text = "5" -> [ok |-> TRUE, value |-> JInt(5)]
      [] text = "\"x\"" -> [ok |-> TRUE, value |-> JStr("x")]
      [] text = "{\"jsonrpc\": \"2.0\", \"id\": \"7\", \"method\": \"initialize\"}" ->
           [ok |-> TRUE,
            value |-> JDict(<<KV("jsonrpc", JStr("2.0")), KV("id", JStr("7")),
                              KV("method", JStr("initialize"))>>)]
      [] text = "{\"jsonrpc\": \"2.0\", \"method\": \"tools/list\"}" ->
           [ok |-> TRUE,
            value |-> JDict(<<KV("jsonrpc", JStr("2.0")), KV("method", JStr("tools/list"))>>)]
      [] text = "{\"jsonrpc\": \"2.0\", \"id\": null, \"method\": \"ping\"}" ->
           [ok |-> TRUE,
            value |-> JDict(<<KV("jsonrpc", JStr("2.0")), KV("id", JNull),
                              KV("method", JStr("ping"))>>)]
      [] text = "{\"jsonrpc\": \"2.0\", \"id\": \"7\", \"method\": \"tools/call\", \"params\": {\"name\": \"get_bridge_info\", \"arguments\": {\"from_chain\": \"zetachain\"}}}" ->
           [ok |-> TRUE,
            value |-> JDict(<<KV("jsonrpc", JStr("2.0")), KV("id", JStr("7")),
                              KV("method", JStr("tools/call")),
                              KV("params", JDict(<<
                                  KV("name", JStr("get_bridge_info")),
                                  KV("arguments", JDict(<<KV("from_chain", JStr("zetachain"))>>))>>))>>)]
      [] text = "{\"jsonrpc\": \"2.0\", \"id\": \"7\", \"method\": \"tools/call\", \"params\": {\"name\": \"does_not_exist\", \"arguments\": {}}}" ->
           [ok |-> TRUE,
            value |-> JDict(<<KV("jsonrpc", JStr("2.0")), KV("id", JStr("7")),
                              KV("method", JStr("tools/call")),
                              KV("params", JDict(<<KV("name", JStr("does_not_exist")),
                                                   KV("arguments", EmptyDict)>>))>>)]

\* the lines the input can hold
Lines ==
    {EOF, "  ", "{bad", "[1]", "null", "5", "\"x\"",
     "{\"jsonrpc\": \"2.0\", \"id\": \"7\", \"method\": \"initialize\"}",
     "{\"jsonrpc\": \"2.0\", \"method\": \"tools/list\"}",
     "{\"jsonrpc\": \"2.0\", \"id\": null, \"method\": \"ping\"}",
     "{\"jsonrpc\": \"2.0\", \"id\": \"7\", \"method\": \"tools/call\", \"params\": {\"name\": \"get_bridge_info\", \"arguments\": {\"from_chain\": \"zetachain\"}}}",
     "{\"jsonrpc\": \"2.0\", \"id\": \"7\", \"method\": \"tools/call\", \"params\": {\"name\": \"does_not_exist\", \"arguments\": {}}}"}

\* the response run() builds for a line json.loads rejects
ParseErrorResponse(error) ==
    JDict(<<KV("jsonrpc", JStr("2.0")), KV("id", JNull),
            KV("error", JDict(<<KV("code", JInt(-32700)),
                                KV("message", JStr("Parse error: " \o error))>>))>>)

\* StdioTransport.write_response: what is printed, nothing when the transport is
\* closed.  The model keeps the response dict run() hands to json.dumps, not the line
\* of text json.dumps makes of it.
write_response(transport, response) == IF transport.closed THEN <<>> ELSE <<response>>

\* what a pass of the loop leaves: the responses written, and whether the loop ended;
\* the finally clause closes the server when it ends
Written(self, wrote, handler) ==
    WithHandler(Return(self, [wrote |-> wrote, stopped |-> FALSE]), handler)

Stopped(self, handler) ==
    WithHandler(Return(close(self).self, [wrote |-> <<>>, stopped |-> TRUE]), handler)

\* the pass for a parsed request, given what handle_request did: an exception ends the loop
Respond(r) ==
    IF r.raised THEN Stopped(r.self, r.handler)
    ELSE Written(r.self, write_response(r.self.transport, r.value), r.handler)

\* the pass for the text of a line
Parsed(self, loaded, env) ==
    IF ~loaded.ok
    THEN Written(self, write_response(self.transport, ParseErrorResponse(loaded.error)), NoHandler)
    ELSE Respond(handle_request(self, loaded.value, env))

\* one pass of the loop of run(): read a line, answer it or end the loop
run_pass(self, line, env) ==
    IF read_request(self.transport, line) \in {JNull, JStr("")}
    THEN Stopped(self, NoHandler)
    ELSE Parsed(self, json_loads(read_request(self.transport, line).v), env)

-----------------------------------------------------------------------------
(* MCPServer.run step by step: the position of the coroutine, the line it  *)
(* holds, the response it holds, the lines read so far and the responses   *)
(* written so far.                                                         *)

\* the number of lines the model lets the input hold before it ends
MaxReads == 3

\* run() when it is called: nothing read, nothing written; unexpected tells whether
\* the loop has logged "Unexpected error"
RunState ==
    [adapter |-> "stream", pc |-> "start", request_data |-> JNull, response |-> JNull,
     read |-> <<>>, stdout |-> <<>>, unexpected |-> FALSE]

\* the loop as it would be if it read the next line before the response is written
ReadEnabled_pipelined(run) == run.pc \in {"read", "write"}

\* the loop is at its read_request call
ReadEnabled(run) == run.pc = "read"

\* request_data = await self.transport.read_request(); if not request_data: break
after_read(run, line, request_data) ==
    [run EXCEPT !.read = Append(@, line),
                !.request_data = request_data,
                !.pc = IF request_data \in {JNull, JStr("")} THEN "finally" ELSE "dispatch"]

\* the inner try, given what handle_request did: the response to write, or the break
\* of the except Exception clause
Handled(run, r) ==
    IF r.raised
    THEN [self |-> r.self, run |-> [run EXCEPT !.unexpected = TRUE, !.pc = "finally"]]
    ELSE [self |-> r.self, run |-> [run EXCEPT !.response = r.value, !.pc = "write"]]

\* the inner try as it would be if a line that is no JSON ended the loop
Loaded_parse_error_fatal(run, self, loaded, env) ==
    IF ~loaded.ok
    THEN [self |-> self, run |-> [run EXCEPT !.unexpected = TRUE, !.pc = "finally"]]
    ELSE Handled(run, handle_request(self, loaded.value, env))

\* the inner try, given what json.loads did: the parse-error response, or the dispatch
Loaded(run, self, loaded, env) ==
    IF ~loaded.ok
    THEN [self |-> self,
          run |-> [run EXCEPT !.response = ParseErrorResponse(loaded.error), !.pc = "write"]]
    ELSE Handled(run, handle_request(self, loaded.value, env))

\* json.loads(request_data) and handle_request
run_dispatch(run, self, env) == Loaded(run, self, json_loads(run.request_data.v), env)

\* await self.transport.write_response(json.dumps(response)), then the next pass
run_write(run, self) ==
    [run EXCEPT !.stdout = @ \o write_response(self.transport, run.response), !.pc = "read"]

-----------------------------------------------------------------------------
(* The HTTP adapter *)

HttpResponse(status, body) == [status |-> status, body |-> body]

\* the answer of POST /tools/call, given what call_tool did
ToolCallAnswer(tool_name, r) ==
    WithHandler(
        Return(r.self,
               IF r.raised
               THEN HttpResponse(500, JDict(<<KV("detail", JStr(r.value.msg))>>))
               ELSE HttpResponse(200, JDict(<<KV("tool_name", tool_name), KV("result", r.value)>>))),
        r.handler)

\* call_tool_http, once the shared server instance exists
call_tool_http(self, tool_name, args, env) ==
    ToolCallAnswer(tool_name, call_tool(self, tool_name, args, env))

\* the fields of the body that MCPRequest rejects: id and method are required strs,
\* jsonrpc a str, params a mapping
InvalidFields(body) ==
    SelectSeq(<<"jsonrpc", "id", "method", "params">>,
              LAMBDA f : \/ f \in {"id", "method"} /\ ~HasKey(body, f)
                         \/ HasKey(body, f) /\ f # "params" /\ ~IsStr(Item(body, f))
                         \/ HasKey(body, f) /\ f = "params" /\ ~IsDict(Item(body, f)))

\* the 422 answer the framework gives a body that MCPRequest rejects; of its detail
\* the model keeps the names of the fields
Unprocessable(body) ==
    HttpResponse(422, JDict(<<KV("detail", Strs(InvalidFields(body)))>>))

\* MCPRequest(**body).dict(): the four fields in the order of the class, the defaults
\* filled in
request_dict(body) ==
    JDict(<<KV("jsonrpc", DictGet(body, "jsonrpc", JStr("2.0"))),
            KV("id", Item(body, "id")),
            KV("method", Item(body, "method")),
            KV("params", DictGet(body, "params", EmptyDict))>>)

\* no dispatcher call was made
NotDispatched(self, response) == [self |-> self, dispatched |-> FALSE, response |-> response]

\* the try block of handle_mcp_request as it would be if a JSON-RPC error were
\* answered with status 500
McpAnswer_error_status(r, request) ==
    [self |-> r.self, dispatched |-> TRUE, request |-> request, call |-> r,
     response |-> IF r.raised
                  THEN HttpResponse(200, ErrorResponse(Item(request, "id"), -32603, r.value.msg))
                  ELSE HttpResponse(IF HasKey(r.value, "error") THEN 500 ELSE 200, r.value)]

\* the try block of handle_mcp_request, given what handle_request did: the response
\* as the body, or the -32603 body of the except clause
McpAnswer(r, request) ==
    [self |-> r.self, dispatched |-> TRUE, request |-> request, call |-> r,
     response |-> IF r.raised
                  THEN HttpResponse(200, ErrorResponse(Item(request, "id"), -32603, r.value.msg))
                  ELSE HttpResponse(200, r.value)]

\* POST /mcp: created tells whether the shared server instance exists
handle_mcp_request(self, created, body, env) ==
    IF InvalidFields(body) # <<>>
    THEN NotDispatched(self, Unprocessable(body))
    ELSE IF ~created
    THEN NotDispatched(self, HttpResponse(503, JDict(<<KV("detail",
                                                         JStr("MCP server not initialized"))>>)))
    ELSE McpAnswer(handle_request(self, request_dict(body), env), request_dict(body))

\* the answer of a GET endpoint
GetAnswer(self, response) == [self |-> self, response |-> response]

NotCreated(self) ==
    GetAnswer(self, HttpResponse(503, JDict(<<KV("detail", JStr("MCP server not initialized"))>>)))

\* the answer of GET /network/info and GET /chains, given what call_tool did
CallAnswer(r) ==
    GetAnswer(r.self,
              IF r.raised
              THEN HttpResponse(500, JDict(<<KV("detail", JStr(r.value.msg))>>))
              ELSE HttpResponse(200, r.value))

\* GET /network/info?chain=...: created tells whether the shared server instance exists
get_network_info_http(self, created, chain, env) ==
    IF ~created THEN NotCreated(self)
    ELSE CallAnswer(call_tool(self, JStr("get_network_info"), JDict(<<KV("chain", chain)>>), env))

\* GET /chains as it would be if it called a tool of another name
get_supported_chains_http_misnamed(self, created, env) ==
    IF ~created THEN NotCreated(self)
    ELSE CallAnswer(call_tool(self, JStr("get_chains"), EmptyDict, env))

\* GET /chains
get_supported_chains_http(self, created, env) ==
    IF ~created THEN NotCreated(self)
    ELSE CallAnswer(call_tool(self, JStr("get_supported_chains"), EmptyDict, env))

\* the body of GET /stats, given what the three call_tool calls did
StatsAnswer(omnichain_stats, governance_stats, defi_stats) ==
    IF omnichain_stats.raised
    THEN CallAnswer(omnichain_stats)
    ELSE IF governance_stats.raised
    THEN CallAnswer(governance_stats)
    ELSE IF defi_stats.raised
    THEN CallAnswer(defi_stats)
    ELSE GetAnswer(defi_stats.self,
                   HttpResponse(200, JDict(<<
                       KV("omnichain", DictGet(omnichain_stats.value, "result", EmptyDict)),
                       KV("governance", DictGet(governance_stats.value, "result", EmptyDict)),
                       KV("defi", DictGet(defi_stats.value, "result", EmptyDict))>>)))

\* GET /stats
get_platform_stats(self, created, env) ==
    IF ~created THEN NotCreated(self)
    ELSE StatsAnswer(
             call_tool(self, JStr("get_omnichain_stats"), EmptyDict, env),
             call_tool(call_tool(self, JStr("get_omnichain_stats"), EmptyDict, env).self,
                       JStr("get_governance_stats"), EmptyDict, env),
             call_tool(call_tool(call_tool(self, JStr("get_omnichain_stats"), EmptyDict, env).self,
                                 JStr("get_governance_stats"), EmptyDict, env).self,
                       JStr("get_defi_stats"), EmptyDict, env))

-----------------------------------------------------------------------------
(* The calls the model makes on the server.  A request is the mapping that  *)
(* json.loads or the HTTP layer hands to handle_request.                    *)

Req(items) == JDict(items)

\* the id of a request: absent, null, or a string
IdItems == {<<>>, <<KV("id", JNull)>>, <<KV("id", JStr("7"))>>}

CallParams ==
    {JDict(<<KV("name", JStr("does_not_exist")), KV("arguments", EmptyDict)>>),
     JDict(<<KV("name", JStr("get_supported_chains"))>>),
     JDict(<<KV("name", JStr("get_bridge_info")),
             KV("arguments", JDict(<<KV("from_chain", JStr("zetachain")),
                                     KV("to_chain", JStr("Ethereum"))>>))>>),
     JDict(<<KV("name", JStr("get_bridge_info")),
             KV("arguments", JDict(<<KV("from_chain", JStr("zetachain"))>>))>>),
     JDict(<<KV("name", JStr("get_network_info")), KV("arguments", EmptyDict)>>),
     JDict(<<KV("name", JStr("get_network_info")),
             KV("arguments", JDict(<<KV("chain", JStr("solana"))>>))>>),
     JDict(<<KV("name", JStr("get_network_info")),
             KV("arguments", JDict(<<KV("chain", JInt(5))>>))>>),
     JDict(<<KV("name", JStr("get_network_info")),
             KV("arguments", JDict(<<KV("network", JStr("zetachain"))>>))>>),
     JDict(<<KV("name", JStr("get_network_info")), KV("arguments", JList(<<JInt(1)>>))>>),
     JDict(<<KV("name", JStr("get_bridge_info"))>>),
     JDict(<<KV("arguments", EmptyDict)>>),
     JDict(<<KV("name", JNull), KV("arguments", EmptyDict)>>)}

\* the calls POST /tools/call accepts: tool_name is a str, the body a mapping
HttpCallParams ==
    {p \in CallParams : /\ HasKey(p, "name") /\ IsStr(Item(p, "name"))
                        /\ HasKey(p, "arguments") /\ IsDict(Item(p, "arguments"))}

MethodItems ==
    {<<>>,
     <<KV("method", JStr("initialize"))>>,
     <<KV("method", JStr("tools/list"))>>,
     <<KV("method", JStr("ping"))>>}
    \cup {<<KV("method", JStr("tools/call")), KV("params", p)>> : p \in CallParams}

\* requests whose method, params or id is of another type than the protocol gives it
OddRequests ==
    {Req(<<KV("jsonrpc", JStr("2.0")), KV("id", JStr("7")),
           KV("method", JStr("tools/call")), KV("params", JNull)>>),
     Req(<<KV("jsonrpc", JStr("2.0")), KV("id", JStr("7")),
           KV("method", JStr("tools/call")), KV("params", JList(<<JInt(1)>>))>>),
     Req(<<KV("jsonrpc", JStr("2.0")), KV("id", JStr("7")),
           KV("method", JStr("tools/call")), KV("params", JStr("get_pools"))>>),
     Req(<<KV("jsonrpc", JStr("2.0")), KV("id", JInt(3)),
           KV("method", JInt(5)), KV("params", JNull)>>),
     Req(<<KV("id", JList(<<JInt(1)>>)), KV("method", JStr("tools/list")),
           KV("params", JStr("x"))>>),
     Req(<<KV("id", JDict(<<KV("n", JInt(1))>>)), KV("method", JStr("initialize")),
           KV("params", JList(<<>>))>>)}

Requests ==
    {Req(<<KV("jsonrpc", JStr("2.0"))>> \o i \o m) : i \in IdItems, m \in MethodItems}
    \cup OddRequests

\* the environments that can make a difference to the request: only get_network_info
\* reaches the network; it connects only while the connection is not initialized, and
\* it queries the node only for a chain that is configured
EnvsFor(self, request) ==
    LET params == DictGet(request, "params", EmptyDict)
        network == /\ DictGet(request, "method", JNull) = JStr("tools/call")
                   /\ IsDict(params)
                   /\ DictGet(params, "name", JNull) = JStr("get_network_info")
        arguments == DictGet(params, "arguments", EmptyDict)
        chain == IF IsDict(arguments) THEN DictGet(arguments, "chain", JStr("zetachain")) ELSE JNull
        queried == IsStr(chain) /\ HasChainConfig(chain.v)
    IN  IF ~network THEN {QuietEnv}
        ELSE {e \in Envs : /\ self.connection.initialized => e.connect = {}
                           /\ ~queried => (~e.chain_id /\ ~e.block_number)
                           /\ e.account = QuietEnv.account}

NoCall == [op |-> "none", request |-> JNull]

\* the record of a call: what was called with which request, what it returned or
\* raised, the handler it ran, whether it repeats the call before it, and the
\* initialized flag it found
Call(op, request, r) ==
    [op |-> op, request |-> request, raised |-> r.raised, value |-> r.value,
     handler |-> r.handler,
     repeat |-> (last.op = op /\ last.request = request),
     before |-> server.initialized]

\* no adapter: the calls are made on the object
NoAdapter == [adapter |-> "none"]

Init ==
    /\ server = ZetaChainMCPServer
    /\ last = NoCall
    /\ io = NoAdapter

\* the call op(request) did r: the server is left as r left it, and the call is recorded
Step(op, request, r) ==
    /\ server' = r.self
    /\ last' = Call(op, request, r)
    /\ UNCHANGED io

\* a request is dispatched: by the stream loop, by POST /mcp, or by a caller of the class
HandleRequest ==
    \E request \in Requests : \E env \in EnvsFor(server, request) :
        Step("handle_request", request, handle_request(server, request, env))

\* initialize() is called directly: by run() and by the HTTP lifespan before serving
Initialize == Step("initialize", JNull, WithHandler(initialize(server), NoHandler))

\* close() is called: by run() when the loop ends, by the HTTP lifespan at shutdown
Close == Step("close", JNull, WithHandler(close(server), NoHandler))

\* the loop of run() makes a pass: run() has initialized the server, and the loop
\* has not ended
RunPass ==
    /\ server.initialized
    /\ ~server.transport.closed
    /\ \E line \in Lines :
           Step("run_pass", JStr(line), run_pass(server, line, QuietEnv))

\* POST /tools/call?tool_name=... with the arguments as body
CallToolHttp ==
    \E params \in HttpCallParams :
        \E env \in EnvsFor(server, Req(<<KV("method", JStr("tools/call")), KV("params", params)>>)) :
            Step("call_tool_http", params,
                 call_tool_http(server, Item(params, "name"),
                                DictGet(params, "arguments", EmptyDict), env))

Next == HandleRequest \/ Initialize \/ Close \/ RunPass \/ CallToolHttp

Spec == Init /\ [][Next]_vars

-----------------------------------------------------------------------------
(* The HTTP application: the lifespan and POST /mcp *)

\* the application before its lifespan starts: the shared instance is None, and no
\* request has been answered
HttpState == [adapter |-> "http", phase |-> "down", request |-> JNull,
              response |-> HttpResponse(0, JNull)]

\* the JSON bodies posted to /mcp
Bodies ==
    {JDict(i \o m) : i \in IdItems,
                     m \in {<<KV("method", JStr("initialize"))>>,
                            <<KV("jsonrpc", JStr("2.0")), KV("method", JStr("tools/list"))>>,
                            <<KV("method", JStr("ping")), KV("params", EmptyDict)>>,
                            <<KV("method", JStr("tools/call")),
                              KV("params", JDict(<<KV("name", JStr("does_not_exist")),
                                                   KV("arguments", EmptyDict)>>))>>,
                            <<KV("method", JStr("tools/call")),
                              KV("params", JDict(<<KV("name", JStr("get_network_info")),
                                                   KV("arguments", EmptyDict)>>))>>,
                            <<KV("method", JStr("tools/list")), KV("params", JNull)>>,
                            <<KV("jsonrpc", JStr("2.0"))>>}}

InitHttp ==
    /\ server = ZetaChainMCPServer
    /\ last = NoCall
    /\ io = HttpState

\* lifespan, up to the yield: the shared instance is created and initialized
LifespanStartup ==
    /\ io.phase = "down"
    /\ server' = initialize(ZetaChainMCPServer).self
    /\ io' = [io EXCEPT !.phase = "up"]
    /\ UNCHANGED last

\* lifespan, after the yield: the shared instance is closed; the name still holds it
LifespanShutdown ==
    /\ io.phase = "up"
    /\ server' = close(server).self
    /\ io' = [io EXCEPT !.phase = "stopped"]
    /\ UNCHANGED last

\* the request was answered as a says
PostAnswered(body, a) ==
    /\ server' = a.self
    /\ io' = [io EXCEPT !.request = body, !.response = a.response]
    /\ last' = IF a.dispatched THEN Call("handle_request", a.request, a.call) ELSE last

\* the environments of a posted body
EnvsForBody(self, body) ==
    IF InvalidFields(body) # <<>> THEN {QuietEnv} ELSE EnvsFor(self, request_dict(body))

PostMcp ==
    \E body \in Bodies : \E env \in EnvsForBody(server, body) :
        PostAnswered(body, handle_mcp_request(server, io.phase # "down", body, env))

NextHttp == LifespanStartup \/ LifespanShutdown \/ PostMcp

SpecHttp == InitHttp /\ [][NextHttp]_vars

-----------------------------------------------------------------------------
(* run() on its own: the server behind the stream adapter *)

InitRun ==
    /\ server = ZetaChainMCPServer
    /\ last = NoCall
    /\ io = RunState

\* the lines the next readline can return: the input ends after MaxReads lines
NextLines(run) == IF Len(run.read) < MaxReads THEN Lines ELSE {EOF}


\* the start of run() as it would be without its initialize call
RunStart_skipping_initialize ==
    /\ io.pc = "start"
    /\ io' = [io EXCEPT !.pc = "read"]
    /\ UNCHANGED <<server, last>>

\* await self.initialize()
RunStart ==
    /\ io.pc = "start"
    /\ server' = initialize(server).self
    /\ io' = [io EXCEPT !.pc = "read"]
    /\ UNCHANGED last

RunRead ==
    /\ ReadEnabled(io)
    /\ \E line \in NextLines(io) :
           io' = after_read(io, line, read_request(server.transport, line))
    /\ UNCHANGED <<server, last>>

\* the step leaves the server and the loop as d says
Becomes(d) ==
    /\ server' = d.self
    /\ io' = d.run
    /\ UNCHANGED last

RunDispatch ==
    /\ io.pc = "dispatch"
    /\ Becomes(run_dispatch(io, server, QuietEnv))

RunWrite ==
    /\ io.pc = "write"
    /\ io' = run_write(io, server)
    /\ UNCHANGED <<server, last>>

\* finally: await self.close()
RunFinally ==
    /\ io.pc = "finally"
    /\ server' = close(server).self
    /\ io' = [io EXCEPT !.pc = "done"]
    /\ UNCHANGED last

NextRun == RunStart \/ RunRead \/ RunDispatch \/ RunWrite \/ RunFinally

SpecRun == InitRun /\ [][NextRun]_vars

-----------------------------------------------------------------------------
(* The tools that change the collaborators: wallets, proposals and pools.  *)
(* The tool calls come in through POST /tools/call, the other requests     *)
(* through handle_request.                                                 *)

Args(items) == JDict(items)

SomeAddress == JStr("0x1234567890123456789012345678901234567890")

WalletCalls ==
    {[name |-> "create_wallet", arguments |-> Args(<<KV("name", JStr("alice"))>>)],
     [name |-> "create_wallet",
      arguments |-> Args(<<KV("name", JStr("bob")),
                           KV("mnemonic", JStr("test test test test test test test test test test test junk"))>>)],
     [name |-> "create_wallet",
      arguments |-> Args(<<KV("name", JStr("bob")), KV("mnemonic", JStr("not a mnemonic"))>>)]}

VoteCall(proposal_id, voter_address, vote) ==
    [name |-> "vote_on_proposal",
     arguments |-> Args(<<KV("proposal_id", JStr(proposal_id)), KV("voter_address", voter_address),
                          KV("vote", JStr(vote)), KV("voting_power", JInt(100))>>)]

VoteCalls ==
    {VoteCall("prop_001", SomeAddress, "yes"),
     VoteCall("prop_001", SomeAddress, "maybe"),
     VoteCall("prop_001", JStr("nobody"), "no"),
     VoteCall("prop_002", SomeAddress, "yes"),
     VoteCall("prop_404", SomeAddress, "yes")}

SwapCall(pool_id, token_in, amount_in, user_address) ==
    [name |-> "swap_tokens",
     arguments |-> Args(<<KV("pool_id", JStr(pool_id)), KV("token_in", JStr(token_in)),
                          KV("amount_in", JStr(amount_in)), KV("user_address", user_address)>>)]

SwapCalls ==
    {SwapCall("BTC_USDC", "BTC", "20", SomeAddress),
     SwapCall("BTC_USDC", "USDC", "800000", SomeAddress),
     SwapCall("DOGE_USDC", "DOGE", "20", SomeAddress),
     SwapCall("BTC_USDC", "BTC", "0", SomeAddress),
     SwapCall("BTC_USDC", "BTC", "lots", SomeAddress),
     SwapCall("BTC_USDC", "BTC", "20", JStr("nobody"))}

ToolCalls == WalletCalls \cup VoteCalls \cup SwapCalls

\* the number of tool calls a behaviour of the model makes
MaxToolCalls == 3

\* the accounts the key generator may yield to the call: it is asked for one only
\* by a create_wallet that brings no mnemonic
EnvsForTool(call) ==
    IF call.name = "create_wallet" /\ ~HasKey(call.arguments, "mnemonic")
    THEN {[QuietEnv EXCEPT !.account = a] : a \in Accounts}
    ELSE {QuietEnv}

\* the requests with id "7" whose method is not tools/call: initialize, tools/list,
\* "ping", and a request without a method
PlainRequests ==
    {r \in Requests : /\ DictGet(r, "method", JNull) # JStr("tools/call")
                      /\ DictGet(r, "id", JNull) = JStr("7")
                      /\ DictGet(r, "jsonrpc", JNull) = JStr("2.0")}

InitTools ==
    /\ server = ZetaChainMCPServer
    /\ last = NoCall
    /\ io = [adapter |-> "tools", calls |-> 0]

\* POST /tools/call?tool_name=... for a tool that changes a collaborator
ToolCall ==
    /\ io.calls < MaxToolCalls
    /\ \E call \in ToolCalls : \E env \in EnvsForTool(call) :
           /\ server' = call_tool_http(server, JStr(call.name), call.arguments, env).self
           /\ last' = Call("call_tool_http",
                           JDict(<<KV("name", JStr(call.name)), KV("arguments", call.arguments)>>),
                           call_tool_http(server, JStr(call.name), call.arguments, env))
    /\ io' = [io EXCEPT !.calls = @ + 1]

\* a request of another method is dispatched
PlainRequest ==
    \E request \in PlainRequests :
        Step("handle_request", request, handle_request(server, request, QuietEnv))

NextTools == ToolCall \/ PlainRequest \/ Initialize \/ Close

SpecTools == InitTools /\ [][NextTools]_vars

-----------------------------------------------------------------------------
(* Concurrent calls on one event loop.  The HTTP application runs every     *)
(* request as a task of the loop; a task runs until it awaits something     *)
(* that is not ready, and only then does another task get its turn.  A task *)
(* waits for its first turn after the request is accepted, and for the      *)
(* socket when its response is sent.                                        *)

\* _load_tools as it would be if it awaited something that is not ready
load_tools_suspending == TRUE

\* ZetaChainMCPServer._load_tools gives up control before it returns: its body
\* holds no await
load_tools_suspends == FALSE

\* swap_tokens as it would be if it awaited something that is not ready between
\* the quote and the update of the reserves
swap_tokens_suspending == TRUE

\* DeFiManager.swap_tokens gives up control before it returns: its body holds no
\* await
swap_tokens_suspends == FALSE

\* call_tool as it would be if it handed the handler to create_task and went on
tool_method_spawned == TRUE

\* call_tool runs the handler as a task of its own instead of awaiting it
tool_method_detached == FALSE

\* a call of a task: POST /mcp with an initialize request, or POST /tools/call
InitializeCall ==
    [name |-> "handle_request",
     arguments |-> Req(<<KV("jsonrpc", JStr("2.0")), KV("id", JStr("7")),
                         KV("method", JStr("initialize"))>>)]

AsyncCalls ==
    {InitializeCall,
     SwapCall("BTC_USDC", "BTC", "20", SomeAddress),
     SwapCall("BTC_USDC", "USDC", "800000", SomeAddress),
     SwapCall("DOGE_USDC", "DOGE", "20", SomeAddress)}

\* the call run from its first line to its return
run_to_return(self, call) ==
    IF call.name = "handle_request"
    THEN handle_request(self, call.arguments, QuietEnv)
    ELSE call_tool_http(self, JStr(call.name), call.arguments, QuietEnv)

IdleTask == [pc |-> "idle", call |-> JNull, frame |-> JNull, handler |-> "none",
             response |-> JNull]

\* the call is a swap that passes the checks of swap_tokens
SwapsIn(self, call) ==
    /\ call.name = "swap_tokens"
    /\ HasKey(self.defi_manager.pools, Item(call.arguments, "pool_id").v)
    /\ validate_address(Item(call.arguments, "user_address"))
    /\ validate_amount(Item(call.arguments, "amount_in"))

\* the call is an initialize request that finds the flag unset
LoadsIn(self, call) == call = InitializeCall /\ ~self.initialized

\* the rest of swap_tokens, call_tool and call_tool_http after a suspension between
\* the quote and the update: the reserves are updated with the quote of the frame
resume_swap(self, call, quote) ==
    LET pool_id == Item(call.arguments, "pool_id")
        amount == float(Item(call.arguments, "amount_in"))
        pool == Item(self.defi_manager.pools, pool_id.v)
    IN  ToolCallAnswer(
            JStr(call.name),
            Envelope(call.name,
                     Return([self EXCEPT !.defi_manager.pools =
                                DictSet(@, pool_id.v, swap_apply(pool, quote, amount))],
                            swap_result(pool_id, Item(call.arguments, "token_in"), amount, quote,
                                        Item(call.arguments, "user_address")))))

\* the rest of initialize and handle_request after a suspension inside _load_tools
resume_load(self, call) ==
    InitializeResponse(Return([load_tools(self) EXCEPT !.initialized = TRUE], CapabilityPayload),
                       Item(call.arguments, "id"))

\* one turn of the event loop for the task: it runs from where it stands to its next
\* suspension or to its return
advance(self, task) ==
    LET call == task.call
        whole == run_to_return(self, call)
        Returned(r) == [self |-> r.self,
                        task |-> [task EXCEPT !.pc = "returned", !.frame = JNull,
                                              !.response = r.value,
                                              !.handler = IF r.handler.invoked THEN "done"
                                                          ELSE "none"]]
    IN  IF task.pc = "suspended"
        THEN IF call.name = "swap_tokens"
             THEN Returned(resume_swap(self, call, task.frame))
             ELSE Returned(resume_load(self, call))
        ELSE IF task.pc = "returned"
        THEN \* the detached handler gets its turn
             [self |-> whole.self, task |-> [task EXCEPT !.handler = "done"]]
        ELSE IF swap_tokens_suspends /\ SwapsIn(self, call)
        THEN [self |-> self,
              task |-> [task EXCEPT !.pc = "suspended", !.handler = "running",
                                    !.frame = swap_quote(
                                        Item(self.defi_manager.pools,
                                             Item(call.arguments, "pool_id").v),
                                        Item(call.arguments, "token_in"),
                                        float(Item(call.arguments, "amount_in")))]]
        ELSE IF load_tools_suspends /\ LoadsIn(self, call)
        THEN [self |-> self, task |-> [task EXCEPT !.pc = "suspended"]]
        ELSE IF tool_method_detached /\ whole.handler.invoked
        THEN [self |-> self,
              task |-> [task EXCEPT
                          !.pc = "returned", !.handler = "running",
                          !.response = HttpResponse(200, JDict(<<
                              KV("tool_name", JStr(call.name)),
                              KV("result", JDict(<<KV("success", JBool(TRUE)),
                                                   KV("result", JNull)>>))>>))]]
        ELSE Returned(whole)

\* the task can take a turn
Runnable(task) ==
    \/ task.pc \in {"scheduled", "suspended"}
    \/ task.pc = "returned" /\ task.handler = "running"

\* the number of requests a behaviour of the model accepts
MaxAccepted == 3

\* the loop holds two tasks at a time
Slots == {1, 2}

\* a fresh server and an idle loop; done lists the calls in the order in which
\* they returned
InitAsync ==
    /\ server = ZetaChainMCPServer
    /\ last = NoCall
    /\ io = [adapter |-> "asyncio", tasks |-> [i \in Slots |-> IdleTask],
             accepted |-> 0, done |-> <<>>, overlap |-> {}]

\* a request is accepted and its task is scheduled in the first idle slot; overlap
\* keeps the calls that were in flight together
Accept ==
    /\ io.accepted < MaxAccepted
    /\ \E i \in Slots : \E call \in AsyncCalls :
           /\ io.tasks[i].pc = "idle"
           /\ \A k \in Slots : k < i => io.tasks[k].pc # "idle"
           /\ io' = [io EXCEPT
                       !.tasks[i] = [IdleTask EXCEPT !.pc = "scheduled", !.call = call],
                       !.accepted = @ + 1,
                       !.overlap = @ \cup {{call, io.tasks[j].call} :
                                              j \in {k \in Slots : io.tasks[k].pc = "scheduled"}}]
    /\ UNCHANGED <<server, last>>

\* the loop gives a task its turn
TaskTurn ==
    \E i \in Slots :
        /\ Runnable(io.tasks[i])
        /\ server' = advance(server, io.tasks[i]).self
        /\ io' = [io EXCEPT
                    !.tasks[i] = advance(server, io.tasks[i]).task,
                    !.done = IF io.tasks[i].pc # "returned"
                                /\ advance(server, io.tasks[i]).task.pc = "returned"
                             THEN Append(@, io.tasks[i].call) ELSE @]
        /\ last' = [op |-> "advance", request |-> JInt(i)]

\* the response of a task whose call has returned is sent, and the task ends
Send ==
    /\ \E i \in Slots :
           /\ io.tasks[i].pc = "returned"
           /\ ~Runnable(io.tasks[i])
           /\ io' = [io EXCEPT !.tasks[i] = IdleTask]
    /\ UNCHANGED <<server, last>>

NextAsync == Accept \/ TaskTurn \/ Send

SpecAsync == InitAsync /\ [][NextAsync]_vars

-----------------------------------------------------------------------------
(* A loader that fails.  _load_tools builds the list of descriptors; when   *)
(* it raises (the interpreter runs out of memory while it builds the list)  *)
(* the exception leaves initialize before the flag is set.                  *)

\* initialize as it would be if it set the flag before it ran the loader
initialize_flag_first(self, raises) ==
    IF ~self.initialized /\ raises
    THEN Raise([self EXCEPT !.load_calls = @ + 1, !.initialized = TRUE], "MemoryError", "")
    ELSE initialize(self)

\* MCPServer.initialize, raises telling whether _load_tools raises when it runs: the
\* list is not assigned and the line that sets the flag is not reached
initialize_loading(self, raises) ==
    IF ~self.initialized /\ raises
    THEN Raise([self EXCEPT !.load_calls = @ + 1], "MemoryError", "")
    ELSE initialize(self)

\* handle_request for an initialize request, raises telling whether _load_tools
\* raises when it runs
handle_initialize(self, request, raises) ==
    Caught(IF initialize_loading(self, raises).raised
           THEN WithHandler(initialize_loading(self, raises), NoHandler)
           ELSE InitializeResponse(initialize_loading(self, raises),
                                   DictGet(request, "id", JStr("1"))),
           DictGet(request, "id", JStr("1")))

\* the number of times a behaviour of the model runs the loader
MaxLoads == 3

InitializeRequests ==
    {r \in Requests : DictGet(r, "method", JNull) = JStr("initialize") /\ r \notin OddRequests}

\* the call op(request) did r; load_raised tells whether the loader raised in it
LoadStep(op, request, raises, r) ==
    /\ server.load_calls < MaxLoads
    /\ server' = r.self
    /\ last' = [op |-> op, request |-> request, raised |-> r.raised, value |-> r.value,
                load_raised |-> (raises /\ ~server.initialized)]
    /\ UNCHANGED io

\* an initialize request is dispatched
InitializeRequest ==
    \E request \in InitializeRequests : \E raises \in BOOLEAN :
        LoadStep("handle_request", request, raises, handle_initialize(server, request, raises))

\* initialize() is called directly, as run() and the HTTP lifespan call it
InitializeDirect ==
    \E raises \in BOOLEAN :
        LoadStep("initialize", JNull, raises, initialize_loading(server, raises))

NextLoad == InitializeRequest \/ InitializeDirect \/ PlainRequest \/ Close

SpecLoad == Init /\ [][NextLoad]_vars

-----------------------------------------------------------------------------
(* Properties of the protocol dispatcher *)

\* the method of the request of the last call, None when it has none
LastMethod == DictGet(last.request, "method", JNull)

\* the last call was handle_request, and it returned a response
Answered == last.op = "handle_request" /\ ~last.raised

\* a JSON-RPC response: version "2.0", an id, and a result or an error but not both
WellFormed(response) ==
    /\ IsDict(response)
    /\ HasKey(response, "jsonrpc") /\ Item(response, "jsonrpc") = JStr("2.0")
    /\ HasKey(response, "id")
    /\ HasKey(response, "result") # HasKey(response, "error")

\* C1: every response handle_request returns, and every response the stream loop
\* writes (the parse-error response among them), carries jsonrpc "2.0", an id
\* field, and exactly one of result and error.
C1_ResponseWellFormed ==
    /\ Answered => WellFormed(last.value)
    /\ last.op = "run_pass" =>
           \A i \in DOMAIN last.value.wrote : WellFormed(last.value.wrote[i])

\* C1 happens: the stream loop answered a line that is no JSON with the -32700 response
C1_Witness ==
    /\ last.op = "run_pass"
    /\ last.request = JStr("{bad")
    /\ Len(last.value.wrote) = 1
    /\ HasKey(last.value.wrote[1], "error")
    /\ Item(Item(last.value.wrote[1], "error"), "code") = JInt(-32700)

\* C2: the response's id is the request's id on every method path, null included,
\* and "1" when the request has no id key.
C2_IdEchoed ==
    Answered =>
        /\ HasKey(last.value, "id")
        /\ Item(last.value, "id") =
               (IF HasKey(last.request, "id") THEN Item(last.request, "id") ELSE JStr("1"))

\* C2 happens: a tools/call request whose id is null was answered with a null id
C2_Witness ==
    /\ Answered
    /\ LastMethod = JStr("tools/call")
    /\ HasKey(last.request, "id") /\ Item(last.request, "id") = JNull
    /\ Item(last.value, "id") = JNull

\* the text an f-string gives the method of the last request
MethodText ==
    IF ~HasKey(last.request, "method") THEN "None"
    ELSE IF IsStr(Item(last.request, "method")) THEN Item(last.request, "method").v
    ELSE ToString(Item(last.request, "method").v)

\* C3: a request whose method is none of initialize, tools/list and tools/call, a
\* missing method included, is answered with the error -32601 "Method not found:
\* <method>", the id echoed and no result.
C3_MethodNotFound ==
    (last.op = "handle_request"
        /\ LastMethod \notin {JStr("initialize"), JStr("tools/list"), JStr("tools/call")}) =>
        /\ ~last.raised
        /\ Keys(last.value) = <<"jsonrpc", "id", "error">>
        /\ Item(last.value, "id") = DictGet(last.request, "id", JStr("1"))
        /\ Item(last.value, "error") =
               JDict(<<KV("code", JInt(-32601)),
                       KV("message", JStr("Method not found: " \o MethodText))>>)

\* C3 happens: a request without a method was answered "Method not found: None"
C3_Witness ==
    /\ Answered
    /\ ~HasKey(last.request, "method")
    /\ HasKey(last.value, "error")
    /\ Item(Item(last.value, "error"), "message") = JStr("Method not found: None")

\* json.dumps(..., indent=2) of the envelope of a failure with message m
FailureText(m) == "{\n  \"success\": false,\n  \"error\": \"" \o m \o "\"\n}"

\* the response is a result whose one content item holds the text
IsResultWithText(response, text) ==
    /\ Keys(response) = <<"jsonrpc", "id", "result">>
    /\ Item(response, "result") =
           JDict(<<KV("content",
                      JList(<<JDict(<<KV("type", JStr("text")), KV("text", JStr(text))>>)>>))>>)

\* the last call ran a tool handler, and the handler raised
HandlerRaised == last.op # "none" /\ last.handler.invoked /\ last.handler.raised

\* C4: when the handler of the called tool raises with message m, the tools/call
\* response is a result, not an error, whose envelope is {success: false, error: m};
\* nothing is raised out of call_tool or handle_request: POST /tools/call answers
\* 200 and the stream loop writes the response and goes on.
C4_HandlerFailureEnveloped ==
    HandlerRaised =>
        /\ ~last.raised
        /\ last.op = "handle_request" =>
               IsResultWithText(last.value, FailureText(last.handler.value.msg))
        /\ last.op = "run_pass" =>
               /\ ~last.value.stopped
               /\ Len(last.value.wrote) = 1
               /\ IsResultWithText(last.value.wrote[1], FailureText(last.handler.value.msg))
        /\ last.op = "call_tool_http" =>
               /\ last.value.status = 200
               /\ Item(last.value.body, "result") =
                      JDict(<<KV("success", JBool(FALSE)),
                              KV("error", JStr(last.handler.value.msg))>>)

\* C4 happens: tool_get_network_info raised AttributeError under a tools/call request
C4_Witness ==
    /\ Answered
    /\ HandlerRaised
    /\ last.handler.name = "get_network_info"
    /\ last.handler.value.type = "AttributeError"

\* the last call was a tools/call request that names a tool without a handler
UnknownToolCalled ==
    /\ last.op = "handle_request"
    /\ LastMethod = JStr("tools/call")
    /\ IsDict(DictGet(last.request, "params", EmptyDict))
    /\ DictGet(DictGet(last.request, "params", EmptyDict), "name", JNull) = JStr("does_not_exist")

\* C5 as stated: a tools/call that names a tool without a handler is answered with a
\* result whose envelope is {success: false, error: "Tool 'does_not_exist' not found"}.
C5_UnknownToolEnveloped ==
    UnknownToolCalled =>
        /\ ~last.raised
        /\ IsResultWithText(last.value, FailureText("Tool 'does_not_exist' not found"))

\* C5 amended: a tools/call that names a tool without a handler is answered with the
\* error -32603 whose message is "Tool 'does_not_exist' not found", the id echoed
\* and no result; no handler runs.
C5_UnknownToolInternalError ==
    UnknownToolCalled =>
        /\ ~last.raised
        /\ ~last.handler.invoked
        /\ Keys(last.value) = <<"jsonrpc", "id", "error">>
        /\ Item(last.value, "id") = DictGet(last.request, "id", JStr("1"))
        /\ Item(last.value, "error") =
               JDict(<<KV("code", JInt(-32603)),
                       KV("message", JStr("Tool 'does_not_exist' not found"))>>)

\* C5 happens: a tools/call for does_not_exist was answered with an error object
C5_Witness ==
    /\ UnknownToolCalled
    /\ ~last.raised
    /\ HasKey(last.value, "error")
    /\ ~HasKey(last.value, "result")

\* the last call was a tools/call request whose handler returned
HandlerReturned == Answered /\ last.handler.invoked /\ ~last.handler.raised

\* C6: when the handler returns v, the response's result is {content: [item]} with
\* the one item {type: "text", text: s}, s the JSON text of {success: true,
\* result: v}; for the error dict of an unconfigured chain the text is written out.
C6_HandlerValueSerialized ==
    HandlerReturned =>
        /\ IsResultWithText(
               last.value,
               json_dumps(JDict(<<KV("success", JBool(TRUE)),
                                  KV("result", last.handler.value)>>)))
        /\ last.handler.value = JDict(<<KV("error", JStr("Chain solana not available"))>>) =>
               IsResultWithText(
                   last.value,
                   "{\n  \"success\": true,\n  \"result\": {\n    \"error\": \"Chain solana not available\"\n  }\n}")

\* C6 happens: tool_get_supported_chains returned its dict and the response holds it
C6_Witness ==
    /\ HandlerReturned
    /\ last.handler.name = "get_supported_chains"
    /\ HasKey(last.handler.value, "chains")
    /\ HasKey(last.value, "result")

-----------------------------------------------------------------------------
(* Properties of the lifecycle and the registry *)

\* the call ran initialize: directly, through an initialize request, or through an
\* initialize line of the stream
InitializeCalled(call) ==
    \/ call.op = "initialize"
    \/ call.op = "handle_request" /\ DictGet(call.request, "method", JNull) = JStr("initialize")
    \/ call.op = "run_pass"
         /\ call.request = JStr("{\"jsonrpc\": \"2.0\", \"id\": \"7\", \"method\": \"initialize\"}")

\* the call was a request of the method that handle_request answered
AnsweredMethod(call, method) ==
    /\ call.op = "handle_request"
    /\ ~call.raised
    /\ DictGet(call.request, "method", JNull) = JStr(method)

\* the result of an initialize response is the fixed capability payload
HasCapabilityPayload(response) ==
    /\ HasKey(response, "result")
    /\ IsDict(Item(response, "result"))
    /\ Keys(Item(response, "result")) = <<"protocolVersion", "capabilities", "serverInfo">>
    /\ Item(Item(response, "result"), "protocolVersion") = JStr("2024-11-05")
    /\ Keys(Item(Item(response, "result"), "capabilities"))
           = <<"tools", "resources", "prompts", "logging", "experimental">>
    /\ Item(Item(response, "result"), "serverInfo")
           = JDict(<<KV("name", JStr("zetachain-mcp-server")), KV("version", JStr("1.0.0"))>>)

\* C7: every initialize request is answered with the fixed protocolVersion /
\* capabilities / serverInfo payload, and an initialize request that repeats the
\* request before it, id included, gets the response that one got.
C7_InitializeIdempotent ==
    [][AnsweredMethod(last', "initialize") =>
           /\ HasCapabilityPayload(last'.value)
           /\ last'.repeat => last'.value = last.value]_vars

\* C7 happens: the same initialize request with id "7" was answered twice in a row
C7_Witness ==
    /\ AnsweredMethod(last, "initialize")
    /\ last.repeat
    /\ DictGet(last.request, "id", JNull) = JStr("7")
    /\ Item(last.value, "id") = JStr("7")

\* C8: whatever the calls and their order, _load_tools runs at most once, and a call
\* of initialize that finds the server initialized leaves the tool list as it was.
C8_LoadsOnce ==
    [][/\ server'.load_calls <= 1
       /\ (server.initialized /\ InitializeCalled(last')) =>
              /\ server'.tools = server.tools
              /\ server'.load_calls = server.load_calls]_vars

\* C8 happens: an initialize request found the server initialized, and the loader has
\* run once
C8_Witness ==
    /\ AnsweredMethod(last, "initialize")
    /\ last.before
    /\ server.load_calls = 1
    /\ server.tools = ToolDescriptors

\* C9: the initialized flag changes only from false to true and only in a call of
\* initialize; tools/list, tools/call, unrecognized methods and close leave it as
\* it is, so it stays true once set.
C9_InitializedOneWay ==
    [][server'.initialized # server.initialized =>
           /\ ~server.initialized
           /\ server'.initialized
           /\ InitializeCalled(last')]_vars

\* C9 happens: close ran on an initialized server, and the flag is still set
C9_Witness ==
    /\ last.op = "close"
    /\ last.before
    /\ server.transport.closed
    /\ server.initialized

\* the names of the descriptors, in order
DescriptorNames(tools) == [i \in DOMAIN tools |-> Item(tools[i], "name")]

\* C10: on an initialized server tools/list returns the sequence the loader
\* registered, in its order and with no name twice, and a tools/list request that
\* repeats the request before it gets the response that one got.
C10_ToolsListExact ==
    [][AnsweredMethod(last', "tools/list") =>
           /\ server'.initialized =>
                  /\ Item(last'.value, "result") = JDict(<<KV("tools", JList(ToolDescriptors))>>)
                  /\ server'.tools = ToolDescriptors
                  /\ Cardinality(Range(DescriptorNames(server'.tools))) = Len(server'.tools)
           /\ last'.repeat => last'.value = last.value]_vars

\* C10 happens: tools/list was answered twice in a row on an initialized server
C10_Witness ==
    /\ AnsweredMethod(last, "tools/list")
    /\ last.repeat
    /\ last.before
    /\ Item(Item(last.value, "result"), "tools").v # <<>>

-----------------------------------------------------------------------------
(* Properties of the dispatcher's error handling *)

\* the params of the request of the last call, {} when it has none
LastParams == DictGet(last.request, "params", EmptyDict)

\* str(e) of the AttributeError that params.get raises
NoGetText(params) ==
    CASE params.t = "null" -> "'NoneType' object has no attribute 'get'"
      [] params.t = "list" -> "'list' object has no attribute 'get'"
      [] params.t = "str" -> "'str' object has no attribute 'get'"

\* C11: for a request that is a mapping, handle_request returns a well-formed
\* response and raises nothing, whatever the types of method, params and id; a
\* tools/call whose params is null or no mapping gets the error -32603 with the
\* exception's text as message.
C11_DispatcherNeverRaises ==
    last.op = "handle_request" =>
        /\ ~last.raised
        /\ WellFormed(last.value)
        /\ (LastMethod = JStr("tools/call") /\ ~IsDict(LastParams)) =>
               /\ Keys(last.value) = <<"jsonrpc", "id", "error">>
               /\ Item(last.value, "error") =
                      JDict(<<KV("code", JInt(-32603)),
                              KV("message", JStr(NoGetText(LastParams)))>>)

\* C11 happens: a tools/call whose params is null was answered with the error -32603
C11_Witness ==
    /\ Answered
    /\ LastMethod = JStr("tools/call")
    /\ LastParams = JNull
    /\ HasKey(last.value, "error")
    /\ Item(Item(last.value, "error"), "code") = JInt(-32603)

\* the call is a tools/call request for a tool that has a handler, with arguments
\* that do not fit the handler's parameters
ArgumentMismatch(call) ==
    /\ call.op = "handle_request"
    /\ DictGet(call.request, "method", JNull) = JStr("tools/call")
    /\ IsDict(DictGet(call.request, "params", EmptyDict))
    /\ LET params == DictGet(call.request, "params", EmptyDict)
           name == DictGet(params, "name", JNull)
           arguments == DictGet(params, "arguments", EmptyDict)
       IN  \/ name = JStr("get_network_info")
                /\ (~IsDict(arguments) \/ ~(Range(Keys(arguments)) \subseteq {"chain"}))
           \/ name = JStr("get_bridge_info")
                /\ (~IsDict(arguments)
                    \/ Range(Keys(arguments)) # {"from_chain", "to_chain"})

\* C18: a tools/call for a tool that has a handler, with arguments that do not fit
\* its parameters (one missing, one unexpected, none given, or no mapping), is
\* answered with a result whose envelope is {success: false, error: <the
\* TypeError's text>}, not with an error object, and the handler's collaborator is
\* not run: the server is left as it was.  For a missing to_chain the text is
\* written out.
C18_ArgumentMismatchEnveloped ==
    [][ArgumentMismatch(last') =>
           /\ ~last'.raised
           /\ last'.handler.invoked
           /\ last'.handler.raised
           /\ last'.handler.value.type = "TypeError"
           /\ IsResultWithText(last'.value, FailureText(last'.handler.value.msg))
           /\ DictGet(DictGet(last'.request, "params", EmptyDict), "arguments", EmptyDict)
                  = JDict(<<KV("from_chain", JStr("zetachain"))>>) =>
                  last'.handler.value.msg =
                      "ZetaChainMCPServer.tool_get_bridge_info() missing 1 required positional argument: 'to_chain'"
           /\ server' = server]_vars

\* C18 happens: get_network_info was called with an argument it does not take while
\* the connection had not been initialized, and the answer is a result
C18_Witness ==
    /\ ArgumentMismatch(last)
    /\ IsDict(DictGet(LastParams, "arguments", EmptyDict))
    /\ HasKey(DictGet(LastParams, "arguments", EmptyDict), "network")
    /\ ~server.connection.initialized
    /\ HasKey(last.value, "result")

\* C19: a tools/call whose params has no name, or a null name, is answered with an
\* error object with code -32603 and the request's id; no handler runs.
C19_MissingNameInternalError ==
    (last.op = "handle_request"
        /\ LastMethod = JStr("tools/call")
        /\ IsDict(LastParams)
        /\ DictGet(LastParams, "name", JNull) = JNull) =>
        /\ ~last.raised
        /\ ~last.handler.invoked
        /\ Keys(last.value) = <<"jsonrpc", "id", "error">>
        /\ Item(last.value, "id") = DictGet(last.request, "id", JStr("1"))
        /\ Item(Item(last.value, "error"), "code") = JInt(-32603)

\* C19 happens: a tools/call without a name and with id "7" was answered with an error
C19_Witness ==
    /\ Answered
    /\ LastMethod = JStr("tools/call")
    /\ IsDict(LastParams)
    /\ ~HasKey(LastParams, "name")
    /\ DictGet(last.request, "id", JNull) = JStr("7")
    /\ HasKey(last.value, "error")

\* C20: once the first initialize has built the tool list, no call changes it:
\* initialize, tools/list, tools/call, unrecognized methods and close leave the
\* same descriptors in the same order.
C20_ToolListImmutable ==
    [][server.load_calls >= 1 =>
           /\ server'.tools = server.tools
           /\ server'.tools = ToolDescriptors]_vars

\* C20 happens: close ran after the list was built, and the list is still the
\* loader's
C20_Witness ==
    /\ last.op = "close"
    /\ server.load_calls = 1
    /\ server.tools = ToolDescriptors
    /\ Len(server.tools) = 28

-----------------------------------------------------------------------------
(* Properties of the stream adapter *)

\* the lines read that are not empty after the strip: the ones the loop goes on with
Served(read) == SelectSeq(read, LAMBDA line : line \notin {EOF, "  "})

\* the lines that are JSON-RPC requests
RequestLines == Lines \ {EOF, "  ", "{bad", "[1]", "null", "5", "\"x\""}

\* the response is the parse-error response: code -32700, id null, no result
IsParseError(response) ==
    /\ Keys(response) = <<"jsonrpc", "id", "error">>
    /\ Item(response, "id") = JNull
    /\ Item(Item(response, "error"), "code") = JInt(-32700)

\* C12: for a line that is no JSON the loop holds the response with code -32700
\* and id null and leaves the server alone; the response it holds is written as
\* the next line of the output and the loop is back at its read with the
\* transport open; and a request line is answered whatever came before it.
C12_ParseErrorContinues ==
    [][/\ (io.pc = "dispatch" /\ io.request_data = JStr("{bad")) =>
              /\ io'.pc = "write"
              /\ IsParseError(io'.response)
              /\ server' = server
       /\ io.pc = "write" =>
              /\ io'.pc = "read"
              /\ io'.stdout = Append(io.stdout, io.response)
              /\ ~server'.transport.closed
       /\ (io.pc = "dispatch" /\ io.request_data.v \in RequestLines) =>
              /\ io'.pc = "write"
              /\ WellFormed(io'.response)
       /\ \A i \in DOMAIN io'.stdout :
              Served(io'.read)[i] = "{bad" => IsParseError(io'.stdout[i])]_vars

\* C12 happens: the parse-error response was written, and after it the result for a
\* later request
C12_Witness ==
    /\ Len(io.stdout) = 2
    /\ Served(io.read)[1] = "{bad"
    /\ IsParseError(io.stdout[1])
    /\ HasKey(io.stdout[2], "result")

\* C13 as stated: every line read that is not empty gets one well-formed response,
\* whatever JSON it is, and the loop ends only on an empty read or the end of input.
C13_EveryLineAnswered ==
    /\ io.pc = "read" => Len(io.stdout) = Len(Served(io.read))
    /\ \A i \in DOMAIN io.stdout : WellFormed(io.stdout[i])
    /\ io.pc \in {"finally", "done"} =>
           /\ io.read # <<>>
           /\ io.read[Len(io.read)] \in {EOF, "  "}
           /\ Len(io.stdout) = Len(Served(io.read))

\* C14: a read of the end of input or of a blank line takes the loop to the finally
\* clause with nothing written and no error logged; the finally clause closes the
\* server, writes nothing, and run() is done: it takes no step after that.
C14_EmptyReadEndsCleanly ==
    [][/\ (Len(io'.read) > Len(io.read) /\ io'.read[Len(io'.read)] \in {EOF, "  "}) =>
              /\ io'.pc = "finally"
              /\ io'.stdout = io.stdout
              /\ io'.unexpected = io.unexpected
              /\ server' = server
       /\ io.pc = "finally" =>
              /\ io'.pc = "done"
              /\ io'.stdout = io.stdout
              /\ io'.unexpected = io.unexpected
              /\ server'.transport.closed
              /\ ~server'.connection.initialized
       /\ io.pc # "done"]_vars

\* C14 happens: after one answered request a blank line was read, and run() is done
\* with the server closed, one response written and no error logged
C14_Witness ==
    /\ io.pc = "done"
    /\ Len(io.read) = 2
    /\ io.read[2] = "  "
    /\ Len(io.stdout) = 1
    /\ ~io.unexpected
    /\ server.transport.closed

\* the response is the one the dispatcher gives the request of the line
Answers(line, response) ==
    CASE line = "{bad" -> IsParseError(response)
      [] line = "{\"jsonrpc\": \"2.0\", \"id\": \"7\", \"method\": \"initialize\"}" ->
           /\ Item(response, "id") = JStr("7")
           /\ HasCapabilityPayload(response)
      [] line = "{\"jsonrpc\": \"2.0\", \"method\": \"tools/list\"}" ->
           /\ Item(response, "id") = JStr("1")
           /\ HasKey(response, "result")
           /\ Keys(Item(response, "result")) = <<"tools">>
      [] line = "{\"jsonrpc\": \"2.0\", \"id\": null, \"method\": \"ping\"}" ->
           /\ Item(response, "id") = JNull
           /\ HasKey(response, "error")
           /\ Item(Item(response, "error"), "code") = JInt(-32601)
      [] line = "{\"jsonrpc\": \"2.0\", \"id\": \"7\", \"method\": \"tools/call\", \"params\": {\"name\": \"get_bridge_info\", \"arguments\": {\"from_chain\": \"zetachain\"}}}" ->
           /\ Item(response, "id") = JStr("7")
           /\ HasKey(response, "result")
           /\ Keys(Item(response, "result")) = <<"content">>
      [] line = "{\"jsonrpc\": \"2.0\", \"id\": \"7\", \"method\": \"tools/call\", \"params\": {\"name\": \"does_not_exist\", \"arguments\": {}}}" ->
           /\ Item(response, "id") = JStr("7")
           /\ HasKey(response, "error")
           /\ Item(Item(response, "error"), "code") = JInt(-32603)
      [] OTHER -> FALSE

\* C15: at most one request is between its read and its response; when the loop
\* is at its read every request read before has its response written; and the
\* n-th response written answers the n-th request read.
C15_OneInFlight ==
    /\ Len(Served(io.read)) - Len(io.stdout) \in {0, 1}
    /\ io.pc = "read" => Len(io.stdout) = Len(Served(io.read))
    /\ \A i \in DOMAIN io.stdout : Answers(Served(io.read)[i], io.stdout[i])

\* C15 happens: three requests were read and three different responses written
C15_Witness ==
    /\ Len(io.stdout) = 3
    /\ Len(Served(io.read)) = 3
    /\ io.stdout[1] # io.stdout[2]
    /\ io.stdout[2] # io.stdout[3]
    /\ io.stdout[1] # io.stdout[3]

-----------------------------------------------------------------------------
(* Properties of the HTTP adapter *)

\* the body has a str method and, if any, a mapping as params
RequestShaped(body) ==
    /\ IsDict(body)
    /\ HasKey(body, "method") /\ IsStr(Item(body, "method"))
    /\ HasKey(body, "params") => IsDict(Item(body, "params"))

\* the body is one the endpoint hands to the dispatcher: request-shaped, with a str id
Dispatchable(body) ==
    /\ RequestShaped(body)
    /\ HasKey(body, "id") /\ IsStr(Item(body, "id"))

\* the JSON-RPC error code of the body, 0 when it has none
ErrorCode(body) ==
    IF HasKey(body, "error") THEN Item(Item(body, "error"), "code").v ELSE 0

C17_AbsentIdAnswered ==
    (RequestShaped(io.request)
        /\ DictGet(io.request, "id", JNull) = JNull
        /\ io.response.status # 503) =>
        /\ io.response.status = 200
        /\ WellFormed(io.response.body)
        /\ ~HasKey(io.request, "id") => Item(io.response.body, "id") = JStr("1")

-----------------------------------------------------------------------------
(* Properties of the lifecycle: calls before initialize and after close *)

\* C21: a tools/list request that finds the server uninitialized is answered with a
\* result, not an error, whose tools list is empty; it does not run the loader and
\* leaves the flag and the rest of the server as they were.
C21_ListBeforeInitialize ==
    [][(AnsweredMethod(last', "tools/list") /\ ~server.initialized) =>
           /\ Keys(last'.value) = <<"jsonrpc", "id", "result">>
           /\ Item(last'.value, "result") = JDict(<<KV("tools", JList(<<>>))>>)
           /\ server'.load_calls = server.load_calls
           /\ ~server'.initialized
           /\ server' = server]_vars

\* C21 happens: a tools/list request with id "7" was answered before any initialize
C21_Witness ==
    /\ AnsweredMethod(last, "tools/list")
    /\ ~last.before
    /\ server.load_calls = 0
    /\ DictGet(last.request, "id", JNull) = JStr("7")
    /\ DictGet(last.value, "result", JNull) = JDict(<<KV("tools", JList(<<>>))>>)

\* C23: every call of close, the first and the later ones, returns without raising
\* and leaves the transport closed, no chain connection held, and the flag and the
\* tool list as they were; a close that follows a close changes nothing.
C23_CloseRepeatable ==
    [][last'.op = "close" =>
           /\ ~last'.raised
           /\ server'.transport.closed
           /\ server'.connection = ZetaChainConnection
           /\ server'.initialized = server.initialized
           /\ server'.tools = server.tools
           /\ last.op = "close" => server' = server]_vars

\* C23 happens: close ran on a server that close had closed just before
C23_Witness ==
    /\ last.op = "close"
    /\ last.repeat
    /\ ~last.raised
    /\ server.transport.closed
    /\ server.connection.web3_clients = {}

\* C24 as stated: in every state after close the transport is closed and no chain
\* connection is held, whatever calls follow.  The transport is closed by close
\* alone, so a closed transport marks the states after a close.
C24_CloseOneWay ==
    server.transport.closed => server.connection.web3_clients = {}

\* the last call was a tools/call request that names a tool with a handler
HandlerNamed(call) ==
    /\ call.op = "handle_request"
    /\ DictGet(call.request, "method", JNull) = JStr("tools/call")
    /\ IsDict(DictGet(call.request, "params", EmptyDict))
    /\ HasHandler(DictGet(DictGet(call.request, "params", EmptyDict), "name", JNull))

\* the text is json.dumps(..., indent=2) of an envelope: of a success or of a failure
EnvelopeText(text, handler) ==
    IF handler.raised
    THEN text = FailureText(handler.value.msg)
    ELSE text = json_dumps(JDict(<<KV("success", JBool(TRUE)), KV("result", handler.value)>>))

\* C28: in every state, before initialize, after it and after close, a tools/call
\* request that names a tool with a handler runs the handler and is answered with a
\* result that holds the envelope; the flag and the tool list stay as they were.
C28_CallNeedsNoInitialize ==
    [][HandlerNamed(last') =>
           /\ ~last'.raised
           /\ last'.handler.invoked
           /\ last'.handler.name =
                  Item(Item(last'.request, "params"), "name").v
           /\ Keys(last'.value) = <<"jsonrpc", "id", "result">>
           /\ \E text \in {Item(Item(Item(last'.value, "result"), "content").v[1], "text").v} :
                  /\ IsResultWithText(last'.value, text)
                  /\ EnvelopeText(text, last'.handler)
           /\ server'.initialized = server.initialized
           /\ server'.tools = server.tools]_vars

\* C28 happens: tool_get_supported_chains ran and was answered on a server that was
\* never initialized
C28_Witness ==
    /\ HandlerNamed(last)
    /\ ~last.before
    /\ server.load_calls = 0
    /\ last.handler.invoked
    /\ last.handler.name = "get_supported_chains"
    /\ ~last.handler.raised
    /\ HasKey(last.value, "result")

-----------------------------------------------------------------------------
(* Properties of the collaborators under the dispatcher *)

\* the request is a mapping whose method is none of the three the dispatcher knows
Unrecognized(request) ==
    /\ IsDict(request)
    /\ DictGet(request, "method", JNull)
           \notin {JStr("initialize"), JStr("tools/list"), JStr("tools/call")}

\* C22: a request with an unrecognized method leaves the whole server as it was: the
\* flag, the tool list, the transport, the chain connections, and the wallets,
\* messages, proposals, pools and positions of the collaborators.
C22_UnrecognizedMethodFrame ==
    [][(last'.op = "handle_request" /\ Unrecognized(last'.request)) =>
           /\ server'.initialized = server.initialized
           /\ server'.tools = server.tools
           /\ server'.transport = server.transport
           /\ server'.connection = server.connection
           /\ server'.wallet_manager = server.wallet_manager
           /\ server'.omnichain_manager = server.omnichain_manager
           /\ server'.governance_manager = server.governance_manager
           /\ server'.defi_manager = server.defi_manager
           /\ server' = server]_vars

\* C22 happens: "ping" was answered -32601 by a server that holds a wallet, a vote
\* and a swapped pool
C22_Witness ==
    /\ last.op = "handle_request"
    /\ Unrecognized(last.request)
    /\ DictGet(last.request, "method", JNull) = JStr("ping")
    /\ ~last.raised
    /\ HasKey(last.value, "error")
    /\ server.wallet_manager.wallets # EmptyDict
    /\ server.governance_manager # GovernanceManager
    /\ server.defi_manager # DeFiManager

\* the last call ran a tool whose collaborator turned the operation down: the handler
\* returned a dict that holds the error message and nothing else
ValidationFailed ==
    /\ last.op = "call_tool_http"
    /\ last.handler.invoked
    /\ ~last.handler.raised
    /\ IsDict(last.handler.value)
    /\ Keys(last.handler.value) = <<"error">>

\* C27 as stated: when the collaborator turns the operation down (swap_tokens on an
\* unknown pool, vote_on_proposal with an option that is none of yes, no, abstain,
\* create_wallet with a name in use), the envelope is {success: false, error:
\* message}; success is true only when the operation succeeded.
C27_ValidationFailureEnveloped ==
    ValidationFailed =>
        Item(last.value.body, "result") =
            JDict(<<KV("success", JBool(FALSE)),
                    KV("error", Item(last.handler.value, "error"))>>)

-----------------------------------------------------------------------------
(* Properties of concurrent calls *)

\* the server after the calls have run one after the other on a fresh server
RECURSIVE Replay(_)
Replay(calls) ==
    IF calls = <<>> THEN ZetaChainMCPServer
    ELSE run_to_return(Replay(SubSeq(calls, 1, Len(calls) - 1)), calls[Len(calls)]).self

\* the orders in which the loop can give four turns to two tasks
Schedules == [1 .. 4 -> {1, 2}]

\* the server and the two tasks after the turns of the schedule; a turn for a task
\* that cannot run is skipped
RECURSIVE Drive(_, _, _, _)
Drive(self, t1, t2, schedule) ==
    IF schedule = <<>> THEN [self |-> self, t1 |-> t1, t2 |-> t2]
    ELSE IF Head(schedule) = 1 /\ Runnable(t1)
    THEN Drive(advance(self, t1).self, advance(self, t1).task, t2, Tail(schedule))
    ELSE IF Head(schedule) = 2 /\ Runnable(t2)
    THEN Drive(advance(self, t2).self, t1, advance(self, t2).task, Tail(schedule))
    ELSE Drive(self, t1, t2, Tail(schedule))

\* the servers the loop can reach by running the two tasks to their end
Outcomes(self, t1, t2) ==
    {d.self : d \in {e \in {Drive(self, t1, t2, schedule) : schedule \in Schedules} :
                         ~Runnable(e.t1) /\ ~Runnable(e.t2)}}

\* two swaps on one pool wait for their turn in slots i and j
SwapsInFlight(i, j) ==
    /\ i < j
    /\ io.tasks[i].pc = "scheduled" /\ SwapsIn(server, io.tasks[i].call)
    /\ io.tasks[j].pc = "scheduled" /\ SwapsIn(server, io.tasks[j].call)
    /\ Item(io.tasks[i].call.arguments, "pool_id") = Item(io.tasks[j].call.arguments, "pool_id")

\* C25 as stated: two swaps on one pool that are in flight together can interleave
\* their reads and writes, so that the loop can leave the pools in a state that
\* neither order of the two calls, run one after the other, produces.
C25_SwapsRace ==
    \A i, j \in Slots :
        SwapsInFlight(i, j) =>
            \E outcome \in Outcomes(server, io.tasks[i], io.tasks[j]) :
                outcome.defi_manager.pools \notin
                    {Replay(io.done \o <<io.tasks[i].call, io.tasks[j].call>>).defi_manager.pools,
                     Replay(io.done \o <<io.tasks[j].call, io.tasks[i].call>>).defi_manager.pools}

\* C25 amended: calls that are in flight together do not interleave: each runs from
\* its first line to its return in one turn of the loop, so the server, its pools
\* included, is always in the state that the calls that have returned produce when
\* they run one after the other in the order in which they returned.
C25_SwapsSerialized ==
    /\ server = Replay(io.done)
    /\ \A i \in Slots : io.tasks[i].pc # "suspended"

\* C25 happens: two swaps on BTC_USDC, one paying BTC and one paying USDC, were in
\* flight together and have both returned; the two orders leave different reserves
C25_Witness ==
    /\ {SwapCall("BTC_USDC", "BTC", "20", SomeAddress),
        SwapCall("BTC_USDC", "USDC", "800000", SomeAddress)} \in io.overlap
    /\ io.done = <<SwapCall("BTC_USDC", "USDC", "800000", SomeAddress),
                   SwapCall("BTC_USDC", "BTC", "20", SomeAddress)>>
    /\ Item(Item(server.defi_manager.pools, "BTC_USDC"), "reserveA") = JFloat(<<30, 1>>)
    /\ Replay(<<io.done[2], io.done[1]>>).defi_manager # server.defi_manager

\* C26: a task that holds the response of its call has no handler in progress; the
\* turn in which the response is produced is the turn in which the handler ran, the
\* response is the one of the call run from its first line to its return, and a
\* task that holds its response changes the server no more.
C26_HandlerAwaited ==
    [][\A i \in Slots :
           io'.tasks[i].response # JNull =>
               /\ io'.tasks[i].handler # "running"
               /\ io.tasks[i].pc = "scheduled" =>
                      /\ server' = run_to_return(server, io.tasks[i].call).self
                      /\ io'.tasks[i].response = run_to_return(server, io.tasks[i].call).value
               /\ (io.tasks[i].response # JNull /\ io'.tasks[i] # io.tasks[i]) =>
                      server' = server]_vars

\* C26 happens: a task holds the response of a swap whose handler has changed the pool
C26_Witness ==
    \E i \in Slots :
        /\ io.tasks[i].pc = "returned"
        /\ io.tasks[i].call = SwapCall("BTC_USDC", "BTC", "20", SomeAddress)
        /\ io.tasks[i].handler = "done"
        /\ io.tasks[i].response.status = 200
        /\ HasKey(Item(Item(io.tasks[i].response.body, "result"), "result"), "swap")
        /\ server.defi_manager # DeFiManager

-----------------------------------------------------------------------------
(* Properties of a failing loader *)

\* the step ran initialize with a loader that may raise
LoadingStep(call) == call.op \in {"initialize", "handle_request"} /\ "load_raised" \in DOMAIN call

\* C30: when the loader raises in initialize the flag stays false and the tool list
\* stays as it was, initialize() raises and an initialize request is answered with
\* the error -32603 under its id; an initialize that finds the flag false runs the
\* loader, also after a failure; the flag becomes true only in a step whose loader
\* ran and did not raise.
C30_FailedLoadLeavesUninitialized ==
    [][/\ (LoadingStep(last') /\ last'.load_raised) =>
              /\ ~server.initialized /\ ~server'.initialized
              /\ server'.tools = server.tools
              /\ last'.op = "initialize" => last'.raised
              /\ last'.op = "handle_request" =>
                     /\ ~last'.raised
                     /\ Keys(last'.value) = <<"jsonrpc", "id", "error">>
                     /\ Item(last'.value, "id") = DictGet(last'.request, "id", JStr("1"))
                     /\ Item(Item(last'.value, "error"), "code") = JInt(-32603)
       /\ (LoadingStep(last') /\ ~server.initialized) =>
              server'.load_calls = server.load_calls + 1
       /\ (~server.initialized /\ server'.initialized) =>
              /\ server'.load_calls = server.load_calls + 1
              /\ server'.tools = ToolDescriptors
              /\ LoadingStep(last') => ~last'.load_raised]_vars

\* C30 happens: an initialize request was answered -32603 because the loader raised,
\* after an earlier failure: the loader has run twice and the flag is unset
C30_Witness ==
    /\ LoadingStep(last)
    /\ last.load_raised
    /\ last.op = "handle_request"
    /\ HasKey(last.value, "error")
    /\ server.load_calls = 2
    /\ ~server.initialized
    /\ server.tools = <<>>

-----------------------------------------------------------------------------
(* The listed tools and the handlers *)

\* the name a tools/call request asks for, None when it gives none
CalledName(call) == DictGet(DictGet(call.request, "params", EmptyDict), "name", JNull)

\* a tools/call request with a params mapping was answered
ToolsCallAnswered(call) ==
    /\ AnsweredMethod(call, "tools/call")
    /\ IsDict(DictGet(call.request, "params", EmptyDict))

\* the response says that call_tool found no handler for the name
NotFoundAnswer(call) ==
    /\ HasKey(call.value, "error")
    /\ Item(Item(call.value, "error"), "message") =
           JStr("Tool '" \o PyStr(CalledName(call)) \o "' not found")

\* C31: once the server is initialized, the names tools/list returns are the
\* names for which the class defines a handler, and a tools/call request is
\* answered "not found" exactly when its name is not one of the listed names:
\* for a listed name a handler is resolved.
C31_ListedIffHandled ==
    /\ server.initialized =>
           Range(DescriptorNames(server.tools)) = {JStr(n) : n \in HandlerNames}
    /\ (ToolsCallAnswered(last) /\ last.before) =>
           /\ NotFoundAnswer(last) <=>
                  CalledName(last) \notin Range(DescriptorNames(server.tools))
           /\ last.handler.invoked =>
                  CalledName(last) \in Range(DescriptorNames(server.tools))

\* C31 happens: on an initialized server a tools/call for the listed name
\* get_supported_chains ran its handler
C31_Witness ==
    /\ ToolsCallAnswered(last)
    /\ last.before
    /\ CalledName(last) = JStr("get_supported_chains")
    /\ CalledName(last) \in Range(DescriptorNames(server.tools))
    /\ last.handler.invoked
    /\ ~NotFoundAnswer(last)

-----------------------------------------------------------------------------
(* The stream loop initializes before it reads *)

\* the request the loop holds, None when the line it read is no JSON
HeldRequest(run) ==
    IF IsStr(run.request_data) /\ json_loads(run.request_data.v).ok
    THEN json_loads(run.request_data.v).value
    ELSE JNull

\* the loop holds the response to a tools/list request
ListAnswerHeld(run) ==
    /\ run.pc = "write"
    /\ IsDict(HeldRequest(run))
    /\ DictGet(HeldRequest(run), "method", JNull) = JStr("tools/list")

\* the line of an initialize request
InitializeLine == "{\"jsonrpc\": \"2.0\", \"id\": \"7\", \"method\": \"initialize\"}"

\* C32: run() has initialized the server before it reads its first line, and the
\* server stays initialized with the loaded tools while the loop runs; so every
\* tools/list request the loop answers gets the full tool list, never an empty
\* one, whether or not an initialize request came before it.
C32_RunInitializesFirst ==
    /\ io.pc # "start" =>
           /\ server.initialized
           /\ server.tools = ToolDescriptors
    /\ io.pc = "start" => io.read = <<>>
    /\ ListAnswerHeld(io) =>
           /\ Item(io.response, "result") = JDict(<<KV("tools", JList(ToolDescriptors))>>)
           /\ ToolDescriptors # <<>>

\* C32 happens: the first line the loop read was a tools/list request, no
\* initialize request was sent, and the response it holds lists the tools
C32_Witness ==
    /\ ListAnswerHeld(io)
    /\ Len(io.read) = 1
    /\ InitializeLine \notin Range(io.read)
    /\ Len(Item(Item(io.response, "result"), "tools").v) = Len(ToolDescriptors)

-----------------------------------------------------------------------------
(* The connection object on its own: the nodes come and go between the calls *)

MaxConnCalls == 3

\* the chain names the callers ask for
ChainNames == {"zetachain", "Ethereum", "solana"}

\* the networks: which nodes accept a connection while the call runs
ConnEnvs == {e \in Envs : e.account = QuietEnv.account /\ e.chain_id /\ e.block_number}

InitConn ==
    /\ server = ZetaChainMCPServer
    /\ last = NoCall
    /\ io = [adapter |-> "connection", calls |-> 0, closes |-> 0]

\* a call on the connection left it as conn; found tells whether a client came back
ConnStep(op, chain, env, conn, found) ==
    /\ io.calls < MaxConnCalls
    /\ server' = [server EXCEPT !.connection = conn]
    /\ last' = [op |-> op, request |-> chain, connect |-> env.connect, found |-> found]
    /\ io' = [io EXCEPT !.calls = @ + 1,
                        !.closes = IF op = "connection_close" THEN @ + 1 ELSE @]

ConnInitialize ==
    \E env \in ConnEnvs :
        ConnStep("connection_initialize", JNull, env,
                 connection_initialize(server.connection, env), FALSE)

GetClient ==
    \E chain \in ChainNames : \E env \in ConnEnvs :
        LET got == get_client(server.connection, chain, env)
        IN  ConnStep("get_client", JStr(chain), env, got.conn, got.found)

GetNetworkInfo ==
    \E chain \in ChainNames : \E env \in ConnEnvs :
        LET r == get_network_info(server, JStr(chain), env)
        IN  ConnStep("get_network_info", JStr(chain), env, r.self.connection,
                     ~HasKey(r.value, "error"))

ConnClose ==
    ConnStep("connection_close", JNull, QuietEnv, connection_close(server.connection), FALSE)

NextConn == ConnInitialize \/ GetClient \/ GetNetworkInfo \/ ConnClose

SpecConn == InitConn /\ [][NextConn]_vars

\* the step was a call that initializes the connection when it has to
Connecting(call) == call.op \in {"connection_initialize", "get_client", "get_network_info"}

\* C34: a call on an initialized connection attempts nothing: the clients stay as
\* they are, and a chain whose attempt failed stays without a client though its
\* node accepts connections now; a call on a connection that is not initialized
\* (a new one, or one after close) attempts every configured chain and keeps a
\* client for those that accepted; close drops the clients and unsets the flag;
\* and get_client answers from the clients the connection holds.
C34_AttemptedOncePerLifetime ==
    [][/\ (Connecting(last') /\ server.connection.initialized) =>
              server'.connection = server.connection
       /\ (Connecting(last') /\ ~server.connection.initialized) =>
              /\ server'.connection.initialized
              /\ server'.connection.web3_clients = SupportedChains \cap last'.connect
       /\ last'.op = "connection_close" => server'.connection = ZetaChainConnection
       /\ last'.op \in {"get_client", "get_network_info"} =>
              (last'.found <=> Lower(last'.request.v) \in server'.connection.web3_clients)]_vars

\* C34 happens: after a close, get_client initialized the connection again while no
\* node accepted, and a later get_client for zetachain found no client though the
\* node accepts connections now
C34_Witness ==
    /\ io.closes = 1
    /\ io.calls = 3
    /\ last.op = "get_client"
    /\ last.request = JStr("zetachain")
    /\ "zetachain" \in last.connect
    /\ ~last.found
    /\ server.connection.initialized
    /\ server.connection.web3_clients = {}

-----------------------------------------------------------------------------
(* Properties of the votes *)

VoteOptions == {"yes", "no", "abstain"}

\* the votes of the proposal, summed over the three options
VotesSum(proposal) ==
    Item(Item(proposal, "votes"), "yes").v + Item(Item(proposal, "votes"), "no").v
        + Item(Item(proposal, "votes"), "abstain").v

\* every stored proposal's total is the sum of its votes
TotalsAgree(self) ==
    \A id \in Range(Keys(self.governance_manager.proposals)) :
        Item(Item(self.governance_manager.proposals, id), "totalVotingPower").v =
            VotesSum(Item(self.governance_manager.proposals, id))

\* the call ran the tool of that name through POST /tools/call
ToolCalled(call, name) ==
    /\ call.op = "call_tool_http"
    /\ Item(call.request, "name") = JStr(name)

\* the handler returned a dict that reports success
ToolSucceeded(call) ==
    /\ call.handler.invoked
    /\ ~call.handler.raised
    /\ IsDict(call.handler.value)
    /\ HasKey(call.handler.value, "success")

\* the proposals after the step are those before it with power added to the one
\* option of the one proposal and to its total
VoteCounted(before, after, id, vote, power) ==
    /\ Keys(after) = Keys(before)
    /\ \A other \in Range(Keys(before)) \ {id} : Item(after, other) = Item(before, other)
    /\ Item(Item(after, id), "totalVotingPower").v =
           Item(Item(before, id), "totalVotingPower").v + power
    /\ \A option \in VoteOptions :
           Item(Item(Item(after, id), "votes"), option).v =
               Item(Item(Item(before, id), "votes"), option).v
                   + (IF option = vote THEN power ELSE 0)

\* C35: with an integer voting power, every proposal's totalVotingPower is the sum
\* of its yes, no and abstain votes in every state; a vote_on_proposal that is
\* accepted adds the power to the option voted for and to the total of that
\* proposal and to nothing else, and one that is turned down (unknown proposal,
\* invalid address, invalid option, outside the voting window) leaves every
\* proposal as it was.
C35_VotesSumToTotal ==
    [][/\ TotalsAgree(server)
       /\ TotalsAgree(server')
       /\ ToolCalled(last', "vote_on_proposal") =>
              LET arguments == Item(last'.request, "arguments")
              IN  IF ToolSucceeded(last')
                  THEN VoteCounted(server.governance_manager.proposals,
                                   server'.governance_manager.proposals,
                                   Item(arguments, "proposal_id").v,
                                   Item(arguments, "vote").v,
                                   Item(arguments, "voting_power").v)
                  ELSE server'.governance_manager = server.governance_manager]_vars

\* C35 happens: a second vote for yes on prop_001 was accepted; the yes votes and
\* the total have grown by twice the power
C35_Witness ==
    /\ ToolCalled(last, "vote_on_proposal")
    /\ ToolSucceeded(last)
    /\ last.repeat
    /\ Item(Item(Item(server.governance_manager.proposals, "prop_001"), "votes"), "yes") = JInt(1500200)
    /\ Item(Item(server.governance_manager.proposals, "prop_001"), "totalVotingPower") = JInt(1800200)

-----------------------------------------------------------------------------
(* The wallet store: wallets are created and imported *)

SecondAccount == CHOOSE a \in Accounts : a # FirstAccount

ImportCall(name, private_key) ==
    [name |-> "import_wallet",
     arguments |-> Args(<<KV("name", JStr(name)), KV("private_key", private_key)>>)]

WalletStoreCalls ==
    WalletCalls
    \cup {[name |-> "create_wallet", arguments |-> Args(<<KV("name", JStr("carol"))>>)],
          ImportCall("alice", JStr(SecondAccount.private_key)),
          ImportCall("carol", JStr(FirstAccount.private_key)),
          ImportCall("carol", JStr(SecondAccount.private_key)),
          ImportCall("dave", JStr("0x1234")),
          ImportCall("dave", JNull)}

\* POST /tools/call?tool_name=create_wallet or import_wallet
WalletCall ==
    /\ io.calls < MaxToolCalls
    /\ \E call \in WalletStoreCalls : \E env \in EnvsForTool(call) :
           /\ server' = call_tool_http(server, JStr(call.name), call.arguments, env).self
           /\ last' = Call("call_tool_http",
                           JDict(<<KV("name", JStr(call.name)), KV("arguments", call.arguments)>>),
                           call_tool_http(server, JStr(call.name), call.arguments, env))
    /\ io' = [io EXCEPT !.calls = @ + 1]

NextWallets == WalletCall \/ Initialize \/ Close

SpecWallets == InitTools /\ [][NextWallets]_vars

\* the step ran create_wallet or import_wallet
WalletStep(call) == ToolCalled(call, "create_wallet") \/ ToolCalled(call, "import_wallet")

\* the handler returned the dict that holds this error message and nothing else
ToolRefused(call, message) ==
    /\ call.handler.invoked
    /\ ~call.handler.raised
    /\ call.handler.value = JDict(<<KV("error", JStr(message))>>)

\* C36: every wallet of the store stays in the store as it is, whatever is
\* called: no wallet is removed and none is bound to other data; and a
\* create_wallet or import_wallet with a name of the store returns the error
\* "Wallet '<name>' already exists" and leaves the store and its file unchanged.
C36_NameNeverRebound ==
    [][/\ \A name \in Range(Keys(server.wallet_manager.wallets)) :
              /\ HasKey(server'.wallet_manager.wallets, name)
              /\ Item(server'.wallet_manager.wallets, name) =
                     Item(server.wallet_manager.wallets, name)
       /\ (/\ WalletStep(last')
           /\ HasKey(server.wallet_manager.wallets,
                     Item(Item(last'.request, "arguments"), "name").v)) =>
              /\ ToolRefused(last', "Wallet '"
                                        \o Item(Item(last'.request, "arguments"), "name").v
                                        \o "' already exists")
              /\ server'.wallet_manager = server.wallet_manager]_vars

\* C36 happens: import_wallet with the name alice and the key of another account was
\* refused, and alice keeps the address it was created with
C36_Witness ==
    /\ ToolCalled(last, "import_wallet")
    /\ ToolRefused(last, "Wallet 'alice' already exists")
    /\ Item(Item(last.request, "arguments"), "private_key") = JStr(SecondAccount.private_key)
    /\ Item(Item(server.wallet_manager.wallets, "alice"), "address") = JStr(FirstAccount.address)
    /\ Len(Keys(server.wallet_manager.wallets)) = 2

-----------------------------------------------------------------------------
(* The pools: liquidity is added and removed, tokens are swapped *)

AddCall(pool_id, token_a_amount, token_b_amount, user_address) ==
    [name |-> "add_liquidity",
     arguments |-> Args(<<KV("pool_id", JStr(pool_id)),
                          KV("token_a_amount", JStr(token_a_amount)),
                          KV("token_b_amount", JStr(token_b_amount)),
                          KV("user_address", user_address)>>)]

RemoveCall(pool_id, lp_tokens, user_address) ==
    [name |-> "remove_liquidity",
     arguments |-> Args(<<KV("pool_id", JStr(pool_id)), KV("lp_tokens", JStr(lp_tokens)),
                          KV("user_address", user_address)>>)]

PoolCalls ==
    {AddCall("BTC_USDC", "20", "800000", SomeAddress),
     AddCall("BTC_USDC", "0", "20", SomeAddress),
     AddCall("BTC_USDC", "20", "lots", SomeAddress),
     AddCall("DOGE_USDC", "20", "20", SomeAddress),
     RemoveCall("BTC_USDC", "800000", SomeAddress),
     RemoveCall("BTC_USDC", "1600000", SomeAddress),
     RemoveCall("BTC_USDC", "-5", SomeAddress),
     RemoveCall("DOGE_USDC", "20", SomeAddress),
     RemoveCall("BTC_USDC", "20", JStr("nobody")),
     SwapCall("BTC_USDC", "BTC", "20", SomeAddress),
     SwapCall("BTC_USDC", "USDC", "800000", SomeAddress),
     SwapCall("BTC_USDC", "BTC", "0", SomeAddress)}

\* the number of calls on the pools a behaviour of the model makes
MaxPoolCalls == 2

\* POST /tools/call?tool_name=add_liquidity, remove_liquidity or swap_tokens
PoolCall ==
    /\ io.calls < MaxPoolCalls
    /\ \E call \in PoolCalls :
           /\ server' = call_tool_http(server, JStr(call.name), call.arguments, QuietEnv).self
           /\ last' = Call("call_tool_http",
                           JDict(<<KV("name", JStr(call.name)), KV("arguments", call.arguments)>>),
                           call_tool_http(server, JStr(call.name), call.arguments, QuietEnv))
    /\ io' = [io EXCEPT !.calls = @ + 1]

NextPools == PoolCall \/ Initialize \/ Close

SpecPools == InitTools /\ [][NextPools]_vars

\* the number stored under the key of the pool is above zero
PoolPositive(pool, key) == Num(Item(pool, key))[1] > 0

\* C37 as stated: after any add_liquidity, remove_liquidity and swap_tokens calls
\* with amounts that pass the validation, the reserves and the total liquidity of
\* every pool are above zero.
C37_ReservesStayPositive ==
    \A id \in Range(Keys(server.defi_manager.pools)) :
        /\ PoolPositive(Item(server.defi_manager.pools, id), "reserveA")
        /\ PoolPositive(Item(server.defi_manager.pools, id), "reserveB")
        /\ PoolPositive(Item(server.defi_manager.pools, id), "totalLiquidity")

\* the step ran one of the tools that change the pools
PoolStep(call) ==
    \/ ToolCalled(call, "add_liquidity")
    \/ ToolCalled(call, "remove_liquidity")
    \/ ToolCalled(call, "swap_tokens")

\* the handler returned a dict that holds an error message and nothing else
ToolFailed(call) ==
    /\ call.handler.invoked
    /\ ~call.handler.raised
    /\ IsDict(call.handler.value)
    /\ Keys(call.handler.value) = <<"error">>

\* C38: an add_liquidity, remove_liquidity or swap_tokens call either reports
\* success or returns an error dict, and when it returns an error dict (unknown
\* pool, invalid address, invalid amount, division by zero) the pools and the
\* positions are as they were before the call.
C38_FailedMutationChangesNothing ==
    [][PoolStep(last') =>
           /\ ToolSucceeded(last') \/ ToolFailed(last')
           /\ ToolFailed(last') => server'.defi_manager = server.defi_manager]_vars

\* C38 happens: after more liquidity was removed than the pool held, a swap failed
\* with a division by zero, and the pool is as the removal left it
C38_Witness ==
    /\ ToolCalled(last, "swap_tokens")
    /\ ToolRefused(last, "float division by zero")
    /\ Item(Item(server.defi_manager.pools, "BTC_USDC"), "reserveA") = JFloat(<<-20, 1>>)
    /\ Item(Item(server.defi_manager.pools, "BTC_USDC"), "totalLiquidity") = JFloat(<<-800000, 1>>)

-----------------------------------------------------------------------------
(* The queries: tools that report what the managers hold *)

HelloId == JStr("2cf24dba5fb0a30e")

SendCall(message) ==
    [name |-> "send_omnichain_message",
     arguments |-> Args(<<KV("from_chain", JStr("zetachain")), KV("to_chain", JStr("ethereum")),
                          KV("message", JStr(message)), KV("sender_address", SomeAddress),
                          KV("recipient_address", SomeAddress)>>)]

QueryCall(name, items) == [name |-> name, arguments |-> Args(items)]

\* the calls that give the queries something to report
SetupCalls ==
    {AddCall("BTC_USDC", "20", "800000", SomeAddress),
     RemoveCall("BTC_USDC", "1600000", SomeAddress),
     SendCall("hello")}

QueryCalls ==
    {QueryCall("get_pools", <<>>),
     QueryCall("get_pool_info", <<KV("pool_id", JStr("BTC_USDC"))>>),
     QueryCall("get_pool_info", <<KV("pool_id", JStr("DOGE_USDC"))>>),
     QueryCall("get_user_positions", <<KV("user_address", SomeAddress)>>),
     QueryCall("get_user_positions", <<KV("user_address", JStr("nobody"))>>),
     QueryCall("get_defi_stats", <<>>),
     QueryCall("get_proposals", <<>>),
     QueryCall("get_proposals", <<KV("status", JStr("voting"))>>),
     QueryCall("get_proposal", <<KV("proposal_id", JStr("prop_001"))>>),
     QueryCall("get_proposal", <<KV("proposal_id", JStr("prop_404"))>>),
     QueryCall("get_governance_stats", <<>>),
     QueryCall("get_message_status", <<KV("message_id", HelloId)>>),
     QueryCall("get_messages", <<KV("address", SomeAddress)>>),
     QueryCall("get_omnichain_stats", <<>>)}

QueryNames == {call.name : call \in QueryCalls}

\* what random.choice picks while the call runs: only get_message_status asks
EnvsForQuery(call) ==
    IF call.name = "get_message_status"
    THEN {QuietEnv @@ [choice |-> s] : s \in MessageStatuses}
    ELSE {QuietEnv}

\* POST /tools/call?tool_name=... for a query, or for a call that sets the scene
Query ==
    /\ io.calls < MaxToolCalls
    /\ \E call \in SetupCalls \cup QueryCalls : \E env \in EnvsForQuery(call) :
           /\ server' = call_tool_http(server, JStr(call.name), call.arguments, env).self
           /\ last' = Call("call_tool_http",
                           JDict(<<KV("name", JStr(call.name)), KV("arguments", call.arguments)>>),
                           call_tool_http(server, JStr(call.name), call.arguments, env))
    /\ io' = [io EXCEPT !.calls = @ + 1]

NextQueries == Query \/ Initialize \/ Close

SpecQueries == InitTools /\ [][NextQueries]_vars

\* the step ran one of the query tools
QueryStep(call) ==
    /\ call.op = "call_tool_http"
    /\ Item(call.request, "name").v \in QueryNames

\* C39 as stated: a query tool leaves the stored pools, positions, proposals and
\* messages as they were before the call.
C39_QueriesReadOnly ==
    [][QueryStep(last') =>
           /\ server'.defi_manager = server.defi_manager
           /\ server'.governance_manager = server.governance_manager
           /\ server'.omnichain_manager = server.omnichain_manager]_vars

-----------------------------------------------------------------------------
(* The GET endpoints of the HTTP application *)

\* the chains GET /network/info is asked for
QueryChains == {"zetachain", "Ethereum", "solana"}

GetEnvs == {e \in Envs : e.account = QuietEnv.account}

\* the calls POST /tools/call makes between the GET requests
ServiceCalls == {RemoveCall("BTC_USDC", "800000", SomeAddress), SendCall("hello")}

InitGet ==
    /\ server = ZetaChainMCPServer
    /\ last = NoCall
    /\ io = [adapter |-> "http", phase |-> "down", request |-> JNull,
             response |-> HttpResponse(0, JNull), calls |-> 0]

\* a GET request was answered as a says
GetAnswered(path, a) ==
    /\ server' = a.self
    /\ last' = [op |-> "get", request |-> JStr(path), created |-> io.phase # "down",
                value |-> a.response]
    /\ io' = [io EXCEPT !.request = JStr(path), !.response = a.response]

GetNetworkInfoHttp ==
    \E chain \in QueryChains : \E env \in GetEnvs :
        GetAnswered("/network/info?chain=" \o chain,
                    get_network_info_http(server, io.phase # "down", JStr(chain), env))

GetChains == GetAnswered("/chains", get_supported_chains_http(server, io.phase # "down", QuietEnv))

GetStats == GetAnswered("/stats", get_platform_stats(server, io.phase # "down", QuietEnv))

\* POST /tools/call on the shared instance
ServiceCall ==
    /\ io.phase # "down"
    /\ io.calls < MaxToolCalls
    /\ \E call \in ServiceCalls :
           server' = call_tool_http(server, JStr(call.name), call.arguments, QuietEnv).self
    /\ io' = [io EXCEPT !.calls = @ + 1]
    /\ UNCHANGED last

NextGet ==
    \/ LifespanStartup \/ LifespanShutdown
    \/ GetNetworkInfoHttp \/ GetChains \/ GetStats \/ ServiceCall

SpecGet == InitGet /\ [][NextGet]_vars

\* C33: once the shared server instance exists, GET /network/info, GET /chains and
\* GET /stats are answered with status 200, also when the collaborator reports an
\* error for the chain: the body is then the envelope around its error dict.
C33_GetAnswers200 ==
    (last.op = "get" /\ last.created) =>
        /\ last.value.status = 200
        /\ IsDict(last.value.body)
        /\ last.request = JStr("/stats") =>
               Keys(last.value.body) = <<"omnichain", "governance", "defi">>
        /\ last.request # JStr("/stats") =>
               Item(last.value.body, "success") = JBool(TRUE)

\* C33 happens: GET /network/info for a chain that is not configured was answered 200
\* with the collaborator's error inside the envelope
C33_Witness ==
    /\ last.op = "get"
    /\ last.created
    /\ last.request = JStr("/network/info?chain=solana")
    /\ last.value.status = 200
    /\ Item(last.value.body, "result") =
           JDict(<<KV("error", JStr("Chain solana not available"))>>)

=============================================================================
